---- MODULE Spec2Model ----
(***************************************************************************)
(* A model of tei-msdesc-tools: the VIAF record fetcher, normalizer and    *)
(* element builder (src/viaf.py) as driven by the batch loop of            *)
(* src/create_viaf.py; the key checkers src/check_entity_keys.py and       *)
(* src/manage_entities.py over MSDesc.check_keys (src/tei/xml.py); and the *)
(* two prompting tools src/date_bindings.py and src/add_work_subjects.py.  *)
(*                                                                         *)
(* Python strings are sequences of one-character strings, so that the      *)
(* substring test, len() and the regular expressions of the source are     *)
(* computed on characters.  A VIAF identifier is the sequence of decimal   *)
(* digits of str(viaf_id); the empty sequence stands for None.  A JSON     *)
(* value that the service returns either bare or as a list is a record     *)
(* [isList, items]; when isList is FALSE, items holds the one bare value.  *)
(***************************************************************************)
EXTENDS Integers, Sequences, FiniteSets, TLC

(***************************************************************************)
(* Bounds of the model.                                                    *)
(***************************************************************************)
MaxHops == 2        \* redirects the service answers for one identifier
MaxBatch == 2       \* identifiers given to one create_viaf run
MaxHeadings == 2    \* main headings of a record
MaxSourceList == 2  \* contributing source codes in a list-form "s"
MaxStructured == 2  \* structured main headings, and structured alternates
MaxYearLen == 5     \* digits of the year of a date
MaxCitations == 3   \* source citations of a record
MaxTextLen == 4     \* characters of a generated heading text
MaxPaths == 2       \* manuscript descriptions in the collections directory
MaxKeys == 2        \* @key attributes in the collections directory
MaxBindings == 2    \* <binding> elements in the collections directory
MaxBibls == 2       \* <bibl> elements of the works file
MaxCategories == 2  \* <category> elements of the works file

(***************************************************************************)
(* Characters and strings.                                                 *)
(***************************************************************************)
UpperChars == <<"A", "B", "C", "D", "E", "F", "G", "H", "I", "J", "K", "L", "M",
               "N", "O", "P", "Q", "R", "S", "T", "U", "V", "W", "X", "Y", "Z">>
LowerChars == <<"a", "b", "c", "d", "e", "f", "g", "h", "i", "j", "k", "l", "m",
               "n", "o", "p", "q", "r", "s", "t", "u", "v", "w", "x", "y", "z">>
Letters == {UpperChars[i] : i \in 1..26} \cup {LowerChars[i] : i \in 1..26}
DigitChars == {"0", "1", "2", "3", "4", "5", "6", "7", "8", "9"}
SpaceChars == {" ", "\t", "\n"}

\* str.isalpha() / \d / \s on one character
IsAlpha(c) == c \in Letters
IsDigitChar(c) == c \in DigitChars
IsSpace(c) == c \in SpaceChars

\* ord(c) of the characters that are compared
CodePoint(c) ==
    IF \E i \in 1..26 : UpperChars[i] = c
    THEN 64 + (CHOOSE i \in 1..26 : UpperChars[i] = c)
    ELSE IF \E i \in 1..26 : LowerChars[i] = c
    THEN 96 + (CHOOSE i \in 1..26 : LowerChars[i] = c)
    ELSE IF c = " " THEN 32
    ELSE IF c = "," THEN 44
    ELSE IF c = "-" THEN 45
    ELSE IF c = "." THEN 46
    ELSE 48 + (CHOOSE d \in 0..9 : ToString(d) = c)

\* Python's a < b and a <= b on strings: lexicographic by code point
RECURSIVE StrLess(_, _)
StrLess(a, b) ==
    IF b = <<>> THEN FALSE
    ELSE IF a = <<>> THEN TRUE
    ELSE IF a[1] = b[1] THEN StrLess(Tail(a), Tail(b))
    ELSE CodePoint(a[1]) < CodePoint(b[1])
StrLeq(a, b) == a = b \/ StrLess(a, b)

\* Python's `needle in hay` for two strings: substring test
StrContains(hay, needle) ==
    \E i \in 0..(Len(hay) - Len(needle)) :
        \A j \in 1..Len(needle) : hay[i + j] = needle[j]

\* Python's str.join on a list of strings
RECURSIVE Join(_, _)
Join(sep, strs) ==
    IF strs = <<>> THEN <<>>
    ELSE IF Len(strs) = 1 THEN strs[1]
    ELSE strs[1] \o sep \o Join(sep, Tail(strs))

\* Python's str.endswith(c) for a one-character suffix
EndsWith(s, c) == Len(s) > 0 /\ s[Len(s)] = c

\* s[:-1]
DropLast(s) == SubSeq(s, 1, Len(s) - 1)

(***************************************************************************)
(* Source codes.                                                           *)
(***************************************************************************)
LC == <<"L", "C">>
DNB == <<"D", "N", "B">>
BNF == <<"B", "N", "F">>
SUDOC == <<"S", "U", "D", "O", "C">>
BIBSYS == <<"B", "I", "B", "S", "Y", "S">>
NTA == <<"N", "T", "A">>
JPG == <<"J", "P", "G">>
BAV == <<"B", "A", "V">>
NLC == <<"N", "L", "C">>
NKC == <<"N", "K", "C">>

\* the secondary set of the display heading search (viaf.py 334-338)
SecondarySources == <<BNF, SUDOC, BIBSYS, NTA, JPG>>
\* the trust set of the structured headings (viaf.py 371, 379)
PreferredSources == <<LC, DNB, BNF, BAV, JPG>>

\* `code in sources` where sources is heading["sources"]["s"] as the service
\* gave it: list membership for a list, substring test for a bare string
SourceIn(code, s) ==
    IF s.isList THEN \E i \in 1..Len(s.items) : s.items[i] = code
    ELSE StrContains(s.items[1], code)

\* len(heading["sources"]): list length, or the string's character count
SourceLen(s) == IF s.isList THEN Len(s.items) ELSE Len(s.items[1])

\* " ".join(sources) if isinstance(sources, list) else sources
SourceAttr(s) == IF s.isList THEN Join(<<" ">>, s.items) ELSE s.items[1]

(***************************************************************************)
(* Python values.                                                          *)
(***************************************************************************)
\* None, where a string is expected (no real string holds this token)
None == <<"None">>
\* a key that the JSON object does not have
Missing == "<missing>"
\* the en dash, one character
EnDash == "ndash"

\* truthiness of a string-or-None
Truthy(s) == s # None /\ s # <<>>

\* a JSON value given bare, and given as a list
Bare(x) == [isList |-> FALSE, items |-> <<x>>]
List(xs) == [isList |-> TRUE, items |-> xs]

Min(I) == CHOOSE i \in I : \A j \in I : i <= j

(***************************************************************************)
(* Identifiers: str(viaf_id).                                              *)
(***************************************************************************)
Id0 == <<"0">>
Id7 == <<"7">>
Id42 == <<"4", "2">>
Id99999 == <<"9", "9", "9", "9", "9">>
IdTen == <<"1", "2", "3", "4", "5", "6", "7", "8", "9", "0">>

\* the command-line arguments a batch is drawn from: numbers, a prefixed
\* number, one with leading zeros, a VIAF URL, another URL, and no number
ArgPerson42 == <<"p", "e", "r", "s", "o", "n", "_", "4", "2">>
ArgPerson007 == <<"p", "e", "r", "s", "o", "n", "_", "0", "0", "7">>
ArgUrl42 ==
    <<"h", "t", "t", "p", "s", ":", "/", "/", "v", "i", "a", "f", ".", "o", "r", "g",
      "/", "v", "i", "a", "f", "/", "4", "2", "/">>
ArgHttp ==
    <<"h", "t", "t", "p", ":", "/", "/", "e", "x", "a", "m", "p", "l", "e", ".",
      "o", "r", "g", "/">>
ArgNoDigit == <<"p", "e", "r", "s", "o", "n", "_">>
ArgPerson99999 == <<"p", "e", "r", "s", "o", "n", "_", "9", "9", "9", "9", "9">>
ArgPool ==
    {Id0, Id42, IdTen, ArgPerson42, ArgPerson007, ArgUrl42, ArgHttp, ArgNoDigit}

\* the targets of redirects
RedirectTargets == {Id42, Id99999}

\* re.match(r"[1-9]\d(\d{0,7}|\d{17,20})", str(self.viaf_id)): the pattern
\* is anchored at the start only, so it matches when some prefix fits
PostInitMatch(s) ==
    /\ Len(s) >= 2
    /\ s[1] \in DigitChars \ {"0"}
    /\ s[2] \in DigitChars
    /\ \E n \in (0..7) \cup (17..20) :
          /\ 2 + n <= Len(s)
          /\ \A i \in 3..(2 + n) : s[i] \in DigitChars

(***************************************************************************)
(* The JSON objects of the service.                                        *)
(***************************************************************************)
NsCluster == "http://viaf.org/viaf/VIAFCluster"
NsAbandoned == "http://viaf.org/viaf/abandonedViafRecord"

TextA == <<"A", ".">>
TextB == <<"B">>
TextC == <<"C", " ", " ", "1", "-", "2">>
TextAt(i) == IF i = 1 THEN TextA ELSE IF i = 2 THEN TextB ELSE TextC

Heading(text, s) == [text |-> text, s |-> s]
Subfield(code, text) == [code |-> code, text |-> text]
Structured(ind1, subfield, s) ==
    [datafield |-> [dtype |-> "MARC21", ind1 |-> ind1, ind2 |-> " ",
                    tag |-> "100", subfield |-> subfield],
     s |-> s]

NoRedirect == [st |-> "missing", directto |-> None]

Entry(text, s) == [text |-> text, s |-> s]
Citation(text) == [text |-> text]
Absent == [present |-> FALSE, data |-> List(<<>>)]

\* a cluster record of a person with one LC main heading
BaseRecord ==
    [ns0 |-> NsCluster, scavenged |-> "missing", redirect |-> NoRedirect,
     nameType |-> "Personal",
     sources |-> [present |-> TRUE,
                  source |-> Bare(Citation(<<"L", "C", "|", "n", " ", "7", "9">>))],
     mainHeadings |-> [present |-> TRUE,
                       data |-> Bare(Heading(TextA, List(<<LC>>))),
                       mainHeadingEl |-> List(<<>>)],
     x400s |-> [present |-> FALSE, x400 |-> List(<<>>)],
     birthDate |-> <<"1", "9", "0", "0">>,
     deathDate |-> <<"1", "9", "5", "0">>,
     dateType |-> "lived",
     fixed |-> [gender |-> "a"],
     languageOfEntity |-> Absent,
     nationalityOfEntity |-> Absent,
     occupation |-> Absent]

\* an abandoned record: no nameType, no headings
AbandonedJson(scavenged, redirect) ==
    [BaseRecord EXCEPT !.ns0 = NsAbandoned, !.scavenged = scavenged,
                       !.redirect = redirect, !.nameType = Missing,
                       !.mainHeadings.present = FALSE]

Redirect(t) == [st |-> "target", directto |-> t]
NullRedirect == [st |-> "null", directto |-> None]

\* the abandoned records of the service: with and without each of the keys
\* "scavenged" and "redirect", scavenged or not, redirecting or not
AbandonedJsons ==
    {AbandonedJson("missing", NoRedirect),
     AbandonedJson("missing", Redirect(Id99999)),
     AbandonedJson("true", NoRedirect),
     AbandonedJson("true", Redirect(Id99999)),
     AbandonedJson("false", NoRedirect),
     AbandonedJson("false", NullRedirect)}
    \cup {AbandonedJson("false", Redirect(t)) : t \in RedirectTargets}

StructA == Structured("1", List(<<Subfield(<<"a">>, <<"A", "b", ",">>),
                                  Subfield(<<"4">>, <<"a">>)>>),
                      List(<<LC, NKC>>))
StructB == Structured("0", Bare(Subfield(<<"a">>, <<"a", "b">>)), Bare(DNB))
StructC == Structured("0", List(<<Subfield(<<"a">>, <<"c">>)>>), Bare(NKC))
\* a single untrusted code that holds the letters of a trusted one; the key
\* of StructD is that of StructB, the key of StructE that of StructA
StructD == Structured("1", Bare(Subfield(<<"a">>, <<"a", " ", "b", ".">>)), Bare(NLC))
StructE == Structured("1", List(<<Subfield(<<"a">>, <<"A", "-", "b">>)>>),
                      List(<<NLC, NKC>>))

RecOrg ==
    [BaseRecord EXCEPT !.nameType = "Corporate",
                       !.sources.source =
                           List(<<Citation(<<"W", "K", "P", "|", "Q", "1">>),
                                  Citation(<<"N", "K", "C", "|", "x">>),
                                  Citation(<<"D", "N", "B", "|", "1", " ", "2">>)>>),
                       !.mainHeadings.data =
                           List(<<Heading(TextA, Bare(NKC)),
                                  Heading(TextB, List(<<DNB, NKC>>))>>),
                       !.mainHeadings.mainHeadingEl = Bare(StructA),
                       !.x400s = [present |-> TRUE,
                                  x400 |-> List(<<StructB, StructC>>)],
                       !.birthDate = <<"0">>,
                       !.deathDate = <<"9", "5", "0", "-", "0", "1">>,
                       !.dateType = "flourished",
                       !.fixed.gender = "u",
                       !.languageOfEntity =
                           [present |-> TRUE,
                            data |-> Bare(Entry(<<"l", "a", "t">>, Bare(DNB)))],
                       !.occupation =
                           [present |-> TRUE,
                            data |-> List(<<Entry(<<"p", "r", "e", "s", "s">>,
                                                  List(<<LC, DNB>>))>>)]]
RecPerson ==
    [BaseRecord EXCEPT !.mainHeadings.mainHeadingEl = List(<<StructA, StructB>>),
                       !.x400s = [present |-> TRUE, x400 |-> Bare(StructB)],
                       !.birthDate = <<"-", "5">>,
                       !.dateType = "circa",
                       !.nationalityOfEntity =
                           [present |-> TRUE,
                            data |-> Bare(Entry(<<"G", "B">>, Bare(LC)))],
                       !.languageOfEntity =
                           [present |-> TRUE,
                            data |-> List(<<Entry(<<"e", "n", "g">>, List(<<LC, DNB>>))>>)]]
RecNoMain == [BaseRecord EXCEPT !.mainHeadings.present = FALSE]
RecEmpty == [BaseRecord EXCEPT !.mainHeadings.data = List(<<>>)]
RecOther == [BaseRecord EXCEPT !.nameType = "Geographic"]

\* the records the service answers with in a batch run
BatchRecords == {BaseRecord, RecPerson, RecOrg, RecNoMain, RecEmpty, RecOther}

\* the source codes of the generated headings
Codes == {LC, DNB, BNF, NLC, NKC}
CodeOrder == <<LC, DNB, BNF, NLC, NKC>>
\* the codes at the positions I, in the order of CodeOrder
CodeList(I) ==
    LET F[k \in 0..Len(CodeOrder)] ==
            IF k = 0 THEN <<>>
            ELSE IF k \in I THEN Append(F[k - 1], CodeOrder[k]) ELSE F[k - 1]
    IN F[Len(CodeOrder)]
\* "s" as one bare code, and as a list of distinct codes
SourceForms ==
    {Bare(c) : c \in Codes}
    \cup {List(CodeList(I)) :
             I \in {J \in SUBSET (1..Len(CodeOrder)) :
                       Cardinality(J) \in 1..MaxSourceList}}

Structs == {StructA, StructB, StructC, StructD, StructE}

\* the main headings of a record, with the source forms f in turn
HeadingsOf(f) == [i \in DOMAIN f |-> Heading(TextAt(i), f[i])]

(***************************************************************************)
(* Record Normalizer: the pure parts of VIAF.parse_data.                   *)
(***************************************************************************)
\* re.sub(r"\s+", " ", text)
RECURSIVE CollapseSpace(_)
CollapseSpace(t) ==
    IF t = <<>> THEN <<>>
    ELSE IF IsSpace(t[1])
         THEN IF Len(t) > 1 /\ IsSpace(t[2])
              THEN CollapseSpace(Tail(t))
              ELSE <<" ">> \o CollapseSpace(Tail(t))
         ELSE <<t[1]>> \o CollapseSpace(Tail(t))

\* re.sub(r"(\d+)-", r"\1-en-dash", text): a match is a run of digits and the
\* hyphen after it, so exactly the hyphens that follow a digit are replaced
DashAfterDigit(t) ==
    [i \in 1..Len(t) |->
        IF t[i] = "-" /\ i > 1 /\ IsDigitChar(t[i - 1]) THEN EnDash ELSE t[i]]

\* re.sub(r"-(\d+)", r"en-dash\1", text): exactly the hyphens before a digit
DashBeforeDigit(t) ==
    [i \in 1..Len(t) |->
        IF t[i] = "-" /\ i < Len(t) /\ IsDigitChar(t[i + 1]) THEN EnDash ELSE t[i]]

\* StripFullStop removing every trailing full stop, as text.rstrip(".")
RECURSIVE StripFullStop_All(_)
StripFullStop_All(t) == IF EndsWith(t, ".") THEN StripFullStop_All(DropLast(t)) ELSE t

\* if text.endswith("."): text = text[:-1]
StripFullStop(t) == IF EndsWith(t, ".") THEN DropLast(t) ELSE t

\* viaf.py 150-159
HeadingText(t) == StripFullStop(DashBeforeDigit(DashAfterDigit(CollapseSpace(t))))

\* viaf.py 182-184: if text.endswith((".", ",")): text = text[:-1]
SubfieldText(t) ==
    IF EndsWith(t, ".") \/ EndsWith(t, ",") THEN DropLast(t) ELSE t

\* viaf.py 161-166: one entry of self.headings
ParseHeading(h) == [text |-> HeadingText(h.text), sources |-> h.s]

\* viaf.py 175-200 and 207-232: one entry of self.headings_structured or
\* self.name_variants; the subfield is coerced to a list first
ParseStructured(h) ==
    [dtype |-> h.datafield.dtype,
     ind1 |-> h.datafield.ind1,
     ind2 |-> h.datafield.ind2,
     tag |-> h.datafield.tag,
     subfields |-> [i \in 1..Len(h.datafield.subfield.items) |->
                       [code |-> h.datafield.subfield.items[i].code,
                        text |-> SubfieldText(h.datafield.subfield.items[i].text)]],
     sources |-> h.s,
     normalized |-> None]

\* the JSON object as parse_data leaves it: lists coerced, texts cleaned
CleanHeading(h) == [h EXCEPT !.text = HeadingText(h.text)]
CleanStructured(h) ==
    [h EXCEPT !.datafield.subfield =
        List([i \in 1..Len(h.datafield.subfield.items) |->
                 [h.datafield.subfield.items[i] EXCEPT
                     !.text = SubfieldText(h.datafield.subfield.items[i].text)]])]
MapSeq(Op(_), xs) == [i \in 1..Len(xs) |-> Op(xs[i])]

\* bool(x) of a JSON value that is a mapping or a list
JsonTruthy(v) == ~v.isList \/ v.items # <<>>

(***************************************************************************)
(* Heading Selector (viaf.py 311-349).                                     *)
(***************************************************************************)
\* next((h for h in headings if cond(h)), None), as an index; 0 is None
FirstIndex(I) == IF I = {} THEN 0 ELSE Min(I)

NextLC(hs) == FirstIndex({i \in 1..Len(hs) : SourceIn(LC, hs[i].sources)})
NextDNB(hs) == FirstIndex({i \in 1..Len(hs) : SourceIn(DNB, hs[i].sources)})
NextSecondary(hs) ==
    FirstIndex({i \in 1..Len(hs) :
                   \E k \in 1..Len(SecondarySources) :
                       SourceIn(SecondarySources[k], hs[i].sources)})

\* max(headings, key=lambda h: len(h["sources"])): the first of the largest
MaxSources(hs) ==
    Min({i \in 1..Len(hs) :
            \A j \in 1..Len(hs) : SourceLen(hs[j].sources) <= SourceLen(hs[i].sources)})

\* the index of display_heading; called with a non-empty list when no
\* preferred source is found (max() of an empty list raises ValueError)
DisplayHeading(hs) ==
    IF NextLC(hs) # 0 THEN NextLC(hs)
    ELSE IF NextDNB(hs) # 0 THEN NextDNB(hs)
    ELSE IF NextSecondary(hs) # 0 THEN NextSecondary(hs)
    ELSE MaxSources(hs)

(***************************************************************************)
(* Variant Deduplicator (viaf.py 365-409).                                 *)
(***************************************************************************)
IsPreferred(h) ==
    \E k \in 1..Len(PreferredSources) : SourceIn(PreferredSources[k], h.sources)

\* str.isalpha() of a whole string
IsAlphaStr(s) == Len(s) > 0 /\ \A i \in 1..Len(s) : IsAlpha(s[i])

RECURSIVE LStrip(_)
LStrip(s) == IF s # <<>> /\ IsSpace(s[1]) THEN LStrip(Tail(s)) ELSE s
RECURSIVE RStrip(_)
RStrip(s) == IF s # <<>> /\ IsSpace(s[Len(s)]) THEN RStrip(DropLast(s)) ELSE s
Strip(s) == RStrip(LStrip(s))

IsAlphaCode(sf) == IsAlphaStr(sf.code)
TextOf(sf) == sf.text

\* viaf.py 385-394
Normalized(h) ==
    SelectSeq(Strip(Join(<<" ">>, MapSeq(TextOf, SelectSeq(h.subfields, IsAlphaCode)))),
              IsAlpha)

WithNormalized(h) == IF IsPreferred(h) THEN [h EXCEPT !.normalized = Normalized(h)] ELSE h

\* viaf.py 397-409: one walk over a list under the set of keys seen so far;
\* the result is <<kept entries, keys seen>>
\* Dedup with each kept entry put in front of the earlier ones
RECURSIVE Dedup_Prepend(_, _, _)
Dedup_Prepend(hs, kept, seen) ==
    IF hs = <<>> THEN <<kept, seen>>
    ELSE IF hs[1].normalized \notin seen
         THEN Dedup_Prepend(Tail(hs), <<hs[1]>> \o kept, seen \cup {hs[1].normalized})
         ELSE Dedup_Prepend(Tail(hs), kept, seen)

RECURSIVE Dedup(_, _, _)
Dedup(hs, kept, seen) ==
    IF hs = <<>> THEN <<kept, seen>>
    ELSE IF hs[1].normalized \notin seen
         THEN Dedup(Tail(hs), Append(kept, hs[1]), seen \cup {hs[1].normalized})
         ELSE Dedup(Tail(hs), kept, seen)

StructuredNames(structured, variants) ==
    LET headings_preferred == MapSeq(WithNormalized, SelectSeq(structured, IsPreferred))
        variants_preferred == MapSeq(WithNormalized, SelectSeq(variants, IsPreferred))
        first == Dedup(headings_preferred, <<>>, {})
    IN  Dedup(variants_preferred, first[1], first[2])[1]

(***************************************************************************)
(* Element Builder (viaf.py 287-557): lxml elements as records.            *)
(***************************************************************************)
NoAttrib ==
    [id |-> None, source |-> None, type |-> None, subtype |-> None,
     when |-> None, cert |-> None, notBefore |-> None, notAfter |-> None,
     tag |-> None, target |-> None]

\* etree.Element / etree.SubElement before and after its set() calls
El(tag, attrib, text, children) ==
    [tag |-> tag, attrib |-> attrib, text |-> text, children |-> children]

\* create_element returned None
NoElement == El("None", NoAttrib, None, <<>>)

\* viaf.py 298-303; "" stands for the unbound local
ElementName(nt) ==
    IF nt = "Personal" THEN "person" ELSE IF nt = "Corporate" THEN "org" ELSE ""
ElementId(nt, id) ==
    IF nt = "Personal" THEN <<"person_">> \o id ELSE <<"org_">> \o id

\* viaf.py 352-355 and 413-416
NameTag(element_name) == IF element_name = "person" THEN "persName" ELSE "orgName"

\* DisplayElement with the type of the variants
DisplayElement_TypeVariant(element_name, display_heading) ==
    El(NameTag(element_name),
       [NoAttrib EXCEPT !.source = SourceAttr(display_heading.sources),
                        !.type = <<"variant">>],
       display_heading.text, <<>>)

\* viaf.py 351-363
DisplayElement(element_name, display_heading) ==
    El(NameTag(element_name),
       [NoAttrib EXCEPT !.source = SourceAttr(display_heading.sources),
                        !.type = <<"display">>],
       display_heading.text, <<>>)

\* viaf.py 429-434
NameElement(sf) ==
    El("name", [NoAttrib EXCEPT !.type = <<"marc-">> \o sf.code], sf.text, <<>>)

\* viaf.py 412-434
VariantElement(element_name, name) ==
    El(NameTag(element_name),
       [NoAttrib EXCEPT !.source = SourceAttr(name.sources),
                        !.type = <<"variant">>,
                        !.subtype = IF name.ind1 = "0" THEN <<"forenameFirst">>
                                    ELSE IF name.ind1 = "1" THEN <<"surnameFirst">>
                                    ELSE None],
       None,
       MapSeq(NameElement, SelectSeq(name.subfields, IsAlphaCode)))

VariantElements(element_name, names) ==
    [i \in 1..Len(names) |-> VariantElement(element_name, names[i])]

\* str.zfill(width): zeros go after a leading sign, which counts in the width
RECURSIVE Zeros(_)
Zeros(n) == IF n <= 0 THEN <<>> ELSE <<"0">> \o Zeros(n - 1)
ZFill(s, width) ==
    IF Len(s) >= width THEN s
    ELSE IF s # <<>> /\ s[1] \in {"-", "+"}
         THEN <<s[1]>> \o Zeros(width - Len(s)) \o Tail(s)
         ELSE Zeros(width - Len(s)) \o s

\* the length of the leading run of digits of s
RECURSIVE DigitRun(_)
DigitRun(s) == IF s # <<>> /\ IsDigitChar(s[1]) THEN 1 + DigitRun(Tail(s)) ELSE 0

\* re.sub(r"^(sign\d+)(-|$)", lambda m: m.group(1).zfill(width) + m.group(2), date)
\* where the run starts after `skip` characters of sign: the run of digits must
\* end the string or be followed by a hyphen, or nothing is replaced
PadYear(date, skip, width) ==
    LET n == DigitRun(SubSeq(date, skip + 1, Len(date)))
        stop == skip + n
    IN  IF n >= 1 /\ (stop = Len(date) \/ date[stop + 1] = "-")
        THEN ZFill(SubSeq(date, 1, stop), width) \o SubSeq(date, stop + 1, Len(date))
        ELSE date

\* format_date padding the year of a non-negative date to 3 digits
format_date_ThreeDigits(date) ==
    IF date = <<"0", "0", "0", "0">> \/ date = <<"0">> THEN None
    ELSE IF date # <<>> /\ date[1] = "-"
         THEN IF Len(date) > 1 /\ IsDigitChar(date[2]) THEN PadYear(date, 1, 5) ELSE date
         ELSE PadYear(date, 0, 3)

\* format_date giving a negative date the width of a non-negative one
format_date_SameWidth(date) ==
    IF date = <<"0", "0", "0", "0">> \/ date = <<"0">> THEN None
    ELSE IF date # <<>> /\ date[1] = "-"
         THEN IF Len(date) > 1 /\ IsDigitChar(date[2]) THEN PadYear(date, 1, 4) ELSE date
         ELSE PadYear(date, 0, 4)

\* viaf.py 106-122
format_date(date) ==
    IF date = <<"0", "0", "0", "0">> \/ date = <<"0">> THEN None
    ELSE IF date # <<>> /\ date[1] = "-"
         THEN IF Len(date) > 1 /\ IsDigitChar(date[2]) THEN PadYear(date, 1, 5) ELSE date
         ELSE PadYear(date, 0, 4)

\* viaf.py 239-246
Gender(gender_type) ==
    IF gender_type = "a" THEN <<"female">>
    ELSE IF gender_type = "b" THEN <<"male">>
    ELSE None

\* viaf.py 139-142: "name|id" split on the pipe, spaces removed from the id
NotSpace(c) == c # " "
PipeAt(t) == CHOOSE i \in 1..Len(t) : t[i] = "|"
ParseSource(source) ==
    [name |-> SubSeq(source.text, 1, PipeAt(source.text) - 1),
     id |-> SelectSeq(SubSeq(source.text, PipeAt(source.text) + 1, Len(source.text)),
                      NotSpace)]

\* viaf.py 254-258, 267-271, 280-284: language, nationality, occupation
ParseEntry(e) == [value |-> e.text, sources |-> e.s]

\* DateElements with a floruit only when a bound is known
DateElements_FloruitNeedsBound(date_type, birth_date, death_date) ==
    IF date_type = "lived"
    THEN (IF Truthy(birth_date)
          THEN <<El("birth", [NoAttrib EXCEPT !.source = <<"VIAF">>, !.when = birth_date],
                    None, <<>>)>>
          ELSE <<>>)
         \o (IF Truthy(death_date)
             THEN <<El("death", [NoAttrib EXCEPT !.source = <<"VIAF">>, !.when = death_date],
                       None, <<>>)>>
             ELSE <<>>)
    ELSE IF date_type = "circa"
    THEN (IF Truthy(birth_date)
          THEN <<El("birth", [NoAttrib EXCEPT !.cert = <<"low">>, !.source = <<"VIAF">>,
                                             !.when = birth_date], None, <<>>)>>
          ELSE <<>>)
         \o (IF Truthy(death_date)
             THEN <<El("death", [NoAttrib EXCEPT !.cert = <<"low">>, !.source = <<"VIAF">>,
                                                !.when = death_date], None, <<>>)>>
             ELSE <<>>)
    ELSE IF date_type = "flourished" /\ (Truthy(birth_date) \/ Truthy(death_date))
    THEN <<El("floruit",
              [NoAttrib EXCEPT !.source = <<"VIAF">>,
                               !.notBefore = IF Truthy(birth_date) THEN birth_date ELSE None,
                               !.notAfter = IF Truthy(death_date) THEN death_date ELSE None],
              None, <<>>)>>
    ELSE <<>>

\* viaf.py 436-463
DateElements(date_type, birth_date, death_date) ==
    IF date_type = "lived"
    THEN (IF Truthy(birth_date)
          THEN <<El("birth", [NoAttrib EXCEPT !.source = <<"VIAF">>, !.when = birth_date],
                    None, <<>>)>>
          ELSE <<>>)
         \o (IF Truthy(death_date)
             THEN <<El("death", [NoAttrib EXCEPT !.source = <<"VIAF">>, !.when = death_date],
                       None, <<>>)>>
             ELSE <<>>)
    ELSE IF date_type = "circa"
    THEN (IF Truthy(birth_date)
          THEN <<El("birth", [NoAttrib EXCEPT !.cert = <<"low">>, !.source = <<"VIAF">>,
                                             !.when = birth_date], None, <<>>)>>
          ELSE <<>>)
         \o (IF Truthy(death_date)
             THEN <<El("death", [NoAttrib EXCEPT !.cert = <<"low">>, !.source = <<"VIAF">>,
                                                !.when = death_date], None, <<>>)>>
             ELSE <<>>)
    ELSE IF date_type = "flourished"
    THEN <<El("floruit",
              [NoAttrib EXCEPT !.source = <<"VIAF">>,
                               !.notBefore = IF Truthy(birth_date) THEN birth_date ELSE None,
                               !.notAfter = IF Truthy(death_date) THEN death_date ELSE None],
              None, <<>>)>>
    ELSE <<>>

LangElement(l) ==
    El("langKnown", [NoAttrib EXCEPT !.source = SourceAttr(l.sources), !.tag = l.value],
       None, <<>>)
NationalityElement(n) ==
    El("nationality", [NoAttrib EXCEPT !.source = SourceAttr(n.sources)], n.value, <<>>)
OccupationElement(o) ==
    El("occupation", [NoAttrib EXCEPT !.source = SourceAttr(o.sources)], o.value, <<>>)

\* PersonElements without the test of the element name
PersonElements_AnyKind(element_name, gender_, languages_, nationalities_, occupations_) ==
    (IF Truthy(gender_)
     THEN <<El("sex", [NoAttrib EXCEPT !.source = <<"VIAF">>], gender_, <<>>)>>
     ELSE <<>>)
    \o MapSeq(LangElement, languages_)
    \o MapSeq(NationalityElement, nationalities_)
    \o MapSeq(OccupationElement, occupations_)

\* viaf.py 465-506
PersonElements(element_name, gender_, languages_, nationalities_, occupations_) ==
    IF element_name = "person"
    THEN (IF Truthy(gender_)
          THEN <<El("sex", [NoAttrib EXCEPT !.source = <<"VIAF">>], gender_, <<>>)>>
          ELSE <<>>)
         \o MapSeq(LangElement, languages_)
         \o MapSeq(NationalityElement, nationalities_)
         \o MapSeq(OccupationElement, occupations_)
    ELSE <<>>

\* viaf.py 515-537: the link table, as <<name, url prefix, title>>
viaf_sources ==
    <<<<BNF, <<"https://data.bnf.fr/en/">>, <<"B", "N", "F">>>>,
      <<DNB, <<"https://d-nb.info/gnd/">>, <<"G", "N", "D">>>>,
      <<<<"I", "S", "N", "I">>, <<"https://isni.org/isni/">>, <<"I", "S", "N", "I">>>>,
      <<LC, <<"https://id.loc.gov/authorities/names/">>, <<"L", "C">>>>,
      <<<<"W", "K", "P">>, <<"https://wikidata.org/wiki/">>,
        <<"W", "i", "k", "i", "d", "a", "t", "a">>>>>>

InViafSources(source) == \E k \in 1..Len(viaf_sources) : viaf_sources[k][1] = source.name
LinkOf(name) == viaf_sources[CHOOSE k \in 1..Len(viaf_sources) : viaf_sources[k][1] = name]

\* <item><ref target=url><title>title</title></ref></item>
Item(url, title) ==
    El("item", NoAttrib, None,
       <<El("ref", [NoAttrib EXCEPT !.target = url], None,
            <<El("title", NoAttrib, title, <<>>)>>)>>)

\* viaf.py 539-544
SourceItem(source) == Item(LinkOf(source.name)[2] \o source.id, LinkOf(source.name)[3])

\* key=lambda item: item[0][0].text or ""
TitleKey(item) ==
    IF Truthy(item.children[1].children[1].text)
    THEN item.children[1].children[1].text ELSE <<>>

\* sorted(): stable, ascending by key
RECURSIVE Insert(_, _)
Insert(sorted, item) ==
    IF sorted = <<>> THEN <<item>>
    ELSE IF StrLeq(TitleKey(sorted[Len(sorted)]), TitleKey(item))
         THEN Append(sorted, item)
         ELSE Append(Insert(DropLast(sorted), item), sorted[Len(sorted)])
\* Sorted leaving the items in the order of the citations
Sorted_Unsorted(items) == items

RECURSIVE Sorted(_)
Sorted(items) ==
    IF items = <<>> THEN <<>> ELSE Insert(Sorted(DropLast(items)), items[Len(items)])

\* viaf.py 508-555
LinksNote(sources_, id) ==
    El("note", [NoAttrib EXCEPT !.type = <<"links">>], None,
       <<El("list", [NoAttrib EXCEPT !.type = <<"links">>], None,
            Sorted(MapSeq(SourceItem, SelectSeq(sources_, InViafSources))
                   \o <<Item(<<"https://viaf.org/viaf/">> \o id,
                             <<"V", "I", "A", "F">>)>>))>>)

\* the dates of the service: a year, signed or not, then month and day or not
YearDigits == {"0", "5"}
DateTails == {<<>>, <<"-", "0", "1">>, <<"-", "0", "3", "-", "1", "5">>}
DateSigns == {<<>>, <<"-">>}
OtherDates == {<<"0">>, <<"1", "9", "5", "0">>, <<"-", "5">>}
DateTypes == {"lived", "circa", "flourished", "unknown"}
DateRecord(birth, death, dt) ==
    [BaseRecord EXCEPT !.birthDate = birth, !.deathDate = death, !.dateType = dt]

\* the heading texts of the service
TextChars == {"A", " ", "\t", "-", "1", "."}
TextSmith ==
    <<"S", "m", "i", "t", "h", ",", " ", "J", "o", "h", "n", ",", " ",
      "1", "9", "0", "0", "-", "1", "9", "5", "0", ".">>
TextRecord(t) ==
    [BaseRecord EXCEPT !.mainHeadings.data = Bare(Heading(t, List(<<LC>>)))]

\* a record that carries every kind of data, for a person or not
FullRecord(nt, dt, g) ==
    [BaseRecord EXCEPT !.nameType = nt, !.dateType = dt, !.fixed.gender = g,
                       !.mainHeadings.mainHeadingEl = List(<<StructA, StructB>>),
                       !.x400s = [present |-> TRUE, x400 |-> List(<<StructC, StructB>>)],
                       !.languageOfEntity =
                           [present |-> TRUE,
                            data |-> List(<<Entry(<<"l", "a", "t">>, Bare(DNB)),
                                            Entry(<<"e", "n", "g">>, List(<<LC>>))>>)],
                       !.nationalityOfEntity =
                           [present |-> TRUE,
                            data |-> Bare(Entry(<<"G", "B">>, List(<<LC, DNB>>)))],
                       !.occupation =
                           [present |-> TRUE,
                            data |-> List(<<Entry(<<"p", "r", "e", "s", "s">>,
                                                  List(<<DNB>>))>>)]]

\* the source citations of the service
CitationPool ==
    {Citation(<<"L", "C", "|", "n", " ", "7", "9">>),
     Citation(<<"D", "N", "B", "|", "1", " ", "2">>),
     Citation(<<"W", "K", "P", "|", "Q", "1">>),
     Citation(<<"B", "N", "F", "|", "1", "2">>),
     Citation(<<"I", "S", "N", "I", "|", "0", " ", "1">>),
     Citation(<<"N", "K", "C", "|", "x">>)}
CitationRecord(source) ==
    [BaseRecord EXCEPT !.sources = [present |-> TRUE, source |-> source]]

\* the records one VIAF object is built from: a list of main headings, and
\* a pair of structured lists for a person or an organization
HeadingRecord(f) ==
    [BaseRecord EXCEPT !.mainHeadings.data = List(HeadingsOf(f))]
StructuredRecord(nt, main, alt) ==
    [BaseRecord EXCEPT !.nameType = nt,
                       !.mainHeadings.mainHeadingEl = List(main),
                       !.x400s = [present |-> TRUE, x400 |-> List(alt)]]

\* a JSON object that is never read
NoJson == [BaseRecord EXCEPT !.ns0 = Missing, !.nameType = Missing,
                             !.mainHeadings.present = FALSE]

\* what one HTTP request can come to: status 0 is no response at all
\* (connection failure, timeout); the body matters for status 200 only
Responses ==
    {[status |-> st, json |-> NoJson] : st \in {0, 404, 500}}
    \cup {[status |-> 200, json |-> j] : j \in BatchRecords \cup AbandonedJsons}

(***************************************************************************)
(* The state: create_viaf.main, the VIAF object it holds, the service.     *)
(***************************************************************************)
VARIABLES
    argv,               \* args.viaf_ids, the identifier arguments
    pc,                 \* where main is: "args", "loop", "fetch", "parse", "element",
                        \* "done", or "crashed" by an uncaught exception
    raised,             \* the uncaught exception and the method that raised it
    viaf_ids,           \* the identifiers the for loop has not taken yet
    people,             \* main's list of serialized person elements
    organizations,      \* main's list of serialized org elements
    element,            \* what the last create_element returned
    exit_code,          \* main's return value, -1 while it runs
    output,             \* what was written to the output file
    stdout,             \* the summary lines printed
    stderr,             \* the diagnostics written to sys.stderr
    requests,           \* identifiers requested for the current VIAF object
    responses,          \* what the service answered to each of them
    all_requests,       \* identifiers requested since main started
    viaf_id, data, name_type, sources, headings, headings_structured,
    name_variants, birth_date, death_date, date_type, gender, languages,
    nationalities, occupations      \* the attributes of the VIAF object

VARIABLES
    authority_keys,     \* the xml:ids of the authority files
    paths,              \* the manuscript descriptions not yet checked, each the
                        \* list of its @key values in document order
    tree,               \* the manuscript description check_keys ran on last
    key_results,        \* check_entity_keys' list `results` of (valid, missing)
    validate_only,      \* manage_entities' --validate
    missing_keys,       \* manage_entities' set missing_keys
    new_authority_keys, \* manage_entities' set new_authority_keys
    bindings,           \* the <binding> elements: their file and attributes
    binding,            \* index of the <binding> add_date is prompting for, or 0
    date_string,        \* the line add_date read last
    written,            \* the files written, one entry for each write()
    categories,         \* works.categories: the ids of the <category> elements
    bibls,              \* the <bibl> elements: xml:id and <term> children
    bibl,               \* index of the <bibl> the selector is prompting for, or 0
    selection,          \* the line the selector read last
    selected_categories \* what the selector returned last

keys == <<authority_keys, paths, tree, key_results, validate_only, missing_keys,
          new_authority_keys>>
dating == <<bindings, binding, date_string>>
subjects == <<categories, bibls, bibl, selection, selected_categories>>
tools == <<keys, dating, subjects, written>>

parsed == <<name_type, sources, headings, headings_structured, name_variants,
            birth_date, death_date, date_type, gender, languages,
            nationalities, occupations>>
object == <<viaf_id, data, parsed>>
results == <<people, organizations, element, exit_code, output, stdout>>
network == <<requests, responses, all_requests>>
vars == <<argv, pc, raised, viaf_ids, results, stderr, network, object, tools>>
\* what only create_viaf uses
batch == <<argv, viaf_ids, people, organizations, element, output, network, object>>

\* no key checker is running
NoKeys ==
    /\ authority_keys = {} /\ paths = <<>> /\ tree = <<>> /\ key_results = <<>>
    /\ validate_only = FALSE /\ missing_keys = {} /\ new_authority_keys = {}
\* date_bindings is not running
NoDating == bindings = <<>> /\ binding = 0 /\ date_string = <<>>
\* add_work_subjects is not running
NoSubjects ==
    /\ categories = <<>> /\ bibls = <<>> /\ bibl = 0
    /\ selection = <<>> /\ selected_categories = <<>>

NoException == [type |-> "none", method |-> "none"]

\* the dataclass defaults of VIAF (viaf.py 50-62)
Defaults(nt, src, hs, hst, nv, bd, dd, dt, g, ls, ns, os) ==
    /\ nt = "" /\ src = <<>> /\ hs = <<>> /\ hst = <<>> /\ nv = <<>>
    /\ bd = <<>> /\ dd = <<>> /\ dt = "" /\ g = <<>>
    /\ ls = <<>> /\ ns = <<>> /\ os = <<>>

\* the identifier sets main can build from its arguments (create_viaf.py 47-60)
Batches == {b \in SUBSET ArgPool : Cardinality(b) \in 1..MaxBatch}

\* re.search(r"viaf/(\d+)", viaf_id): where "viaf/" is followed by a digit
ViafAt(a) ==
    {i \in 1..(Len(a) - 5) :
        /\ SubSeq(a, i, i + 4) = <<"v", "i", "a", "f", "/">>
        /\ IsDigitChar(a[i + 5])}
StartsWithHttp(a) == Len(a) >= 4 /\ SubSeq(a, 1, 4) = <<"h", "t", "t", "p">>

\* str(int(digits)), as VIAF renders the identifier: no leading zeros
RECURSIVE IntStr(_)
IntStr(digits) ==
    IF Len(digits) > 1 /\ digits[1] = "0" THEN IntStr(Tail(digits)) ELSE digits

\* int("") raises ValueError: the argument has no digit, no "viaf/" before a
\* digit, and does not start with "http"
NoIdentifier(a) ==
    ViafAt(a) = {} /\ ~StartsWithHttp(a) /\ SelectSeq(a, IsDigitChar) = <<>>

\* create_viaf.py 50-57: the identifier of one argument
ExtractId(a) ==
    IF ViafAt(a) # {}
    THEN LET from == Min(ViafAt(a)) + 5
         IN  IntStr(SubSeq(a, from, from + DigitRun(SubSeq(a, from, Len(a))) - 1))
    ELSE IF StartsWithHttp(a) THEN <<"0">>
    ELSE IntStr(SelectSeq(a, IsDigitChar))

\* the arguments of a run whose identifiers may redirect to one another
PairPool == {Id42, ArgUrl42, ArgPerson99999}
PairBatches == {b \in SUBSET PairPool : Cardinality(b) \in 1..MaxBatch}

\* main is entered with one of the batches B as its arguments
Start(B) ==
    /\ pc = "args" /\ raised = NoException
    /\ argv \in B /\ viaf_ids = {}
    /\ people = <<>> /\ organizations = <<>> /\ element = NoElement
    /\ exit_code = -1 /\ output = <<>> /\ stdout = <<>> /\ stderr = <<>>
    /\ requests = <<>> /\ responses = <<>> /\ all_requests = <<>>
    /\ viaf_id = None /\ data = [st |-> "unset", json |-> NoJson]
    /\ Defaults(name_type, sources, headings, headings_structured, name_variants,
                birth_date, death_date, date_type, gender, languages,
                nationalities, occupations)
    /\ NoKeys /\ NoDating /\ NoSubjects /\ written = <<>>

Init == Start(Batches)
InitPair == Start(PairBatches)

\* an exception nothing catches ends main; `method` is where it was raised
Raise(exception, method) ==
    pc' = "crashed" /\ raised' = [type |-> exception, method |-> method]

(***************************************************************************)
(* create_viaf.py 64-65 and viaf.py 64-69: the loop takes an identifier    *)
(* (a set has no order) and constructs VIAF(viaf_id); __post_init__ tests  *)
(* the identifier and, if it matches, goes on to fetch_data.               *)
(***************************************************************************)
\* create_viaf.py 47-62: the set of identifiers of the arguments
ParseArgs ==
    /\ pc = "args"
    /\ IF \E a \in argv : NoIdentifier(a)
       THEN Raise("ValueError", "main") /\ UNCHANGED viaf_ids
       ELSE /\ pc' = "loop" /\ raised' = raised
            /\ viaf_ids' = {ExtractId(a) : a \in argv}
    /\ UNCHANGED <<argv, results, stderr, network, object, tools>>

Construct ==
    /\ pc = "loop"
    /\ \E id \in viaf_ids :
          /\ viaf_ids' = viaf_ids \ {id}
          /\ viaf_id' = id
          /\ IF PostInitMatch(id)
             THEN pc' = "fetch" /\ stderr' = stderr
             ELSE pc' = "element" /\ stderr' = Append(stderr, "VIAF ID is invalid.")
    /\ data' = [st |-> "unset", json |-> NoJson]
    /\ Defaults(name_type', sources', headings', headings_structured', name_variants',
                birth_date', death_date', date_type', gender', languages',
                nationalities', occupations')
    /\ requests' = <<>> /\ responses' = <<>>
    /\ UNCHANGED <<argv, raised, results, all_requests, tools>>

(***************************************************************************)
(* viaf.py 72-104: one call of fetch_data, which issues one request.  A    *)
(* redirect ends the call in the recursive call, the next FetchData.       *)
(***************************************************************************)
\* Handle with the redirect followed before "scavenged" is looked at
Handle_RedirectFirst(resp) ==
    IF resp.status = 0 THEN "unbound"
    ELSE IF resp.status = 404 THEN "notfound"
    ELSE IF resp.status # 200 THEN "failed"
    ELSE IF resp.json.ns0 # NsAbandoned THEN "record"
    ELSE IF resp.json.redirect.st = "target" THEN "redirect"
    ELSE IF resp.json.scavenged = "missing" THEN "keyerror"
    ELSE IF resp.json.scavenged = "true" THEN "deleted"
    ELSE IF resp.json.redirect.st = "missing" THEN "keyerror"
    ELSE "record"

\* Handle without response.raise_for_status(): the body of an error
\* response is taken for the record
Handle_NoRaiseForStatus(resp) ==
    IF resp.status = 0 THEN "unbound"
    ELSE IF resp.json.ns0 # NsAbandoned THEN "record"
    ELSE IF resp.json.scavenged = "missing" THEN "keyerror"
    ELSE IF resp.json.scavenged = "true" THEN "deleted"
    ELSE IF resp.json.redirect.st = "missing" THEN "keyerror"
    ELSE IF resp.json.redirect.st = "target" THEN "redirect"
    ELSE "record"

\* what fetch_data does with the outcome of its request (viaf.py 75-104):
\*   "unbound"   requests.get raised, so `response` is unbound in the handler
\*   "notfound"  raise_for_status raised and the status is 404
\*   "failed"    raise_for_status raised with another status
\*   "keyerror"  an abandoned record without the key that is subscripted
\*   "deleted"   an abandoned record, scavenged
\*   "redirect"  an abandoned record, not scavenged, with a redirect
\*   "record"    anything else: response.json() is returned
Handle(resp) ==
    IF resp.status = 0 THEN "unbound"
    ELSE IF resp.status = 404 THEN "notfound"
    ELSE IF resp.status # 200 THEN "failed"
    ELSE IF resp.json.ns0 # NsAbandoned THEN "record"
    ELSE IF resp.json.scavenged = "missing" THEN "keyerror"
    ELSE IF resp.json.scavenged = "true" THEN "deleted"
    ELSE IF resp.json.redirect.st = "missing" THEN "keyerror"
    ELSE IF resp.json.redirect.st = "target" THEN "redirect"
    ELSE "record"

\* fetch_data returns d to __post_init__, leaving self.viaf_id = id
Return(d, id, err) ==
    /\ pc' = "parse" /\ raised' = raised
    /\ data' = d /\ viaf_id' = id /\ stderr' = err

NoData == [st |-> "None", json |-> NoJson]

FetchData ==
    /\ pc = "fetch"
    /\ \E resp \in Responses :
          \* the service redirects one identifier at most MaxHops times,
          \* and never to itself
          /\ Handle(resp) = "redirect" =>
                /\ Len(requests) < MaxHops
                /\ resp.json.redirect.directto # viaf_id
          /\ requests' = Append(requests, viaf_id)
          /\ responses' = Append(responses, resp)
          /\ all_requests' = Append(all_requests, viaf_id)
          /\ CASE Handle(resp) = "unbound" ->
                    /\ Raise("UnboundLocalError", "fetch_data")
                    /\ UNCHANGED <<data, viaf_id, stderr>>
               [] Handle(resp) = "notfound" ->
                    Return(NoData, None, Append(stderr, "VIAF ID does not exist"))
               [] Handle(resp) = "failed" ->
                    Return(NoData, viaf_id, Append(stderr, "Request Exception"))
               [] Handle(resp) = "keyerror" ->
                    /\ Raise("KeyError", "fetch_data")
                    /\ UNCHANGED <<data, viaf_id, stderr>>
               [] Handle(resp) = "deleted" ->
                    Return(NoData, None, Append(stderr, "is a deleted record"))
               [] Handle(resp) = "redirect" ->
                    /\ pc' = "fetch" /\ raised' = raised /\ data' = data
                    /\ viaf_id' = resp.json.redirect.directto
                    /\ stderr' = Append(stderr, "is a redirect")
               [] OTHER ->
                    Return([st |-> "json", json |-> resp.json], viaf_id, stderr)
    /\ UNCHANGED <<argv, viaf_ids, results, parsed, tools>>

(***************************************************************************)
(* viaf.py 124-285: parse_data.                                            *)
(***************************************************************************)
CleanSources(j) ==
    IF j.sources.present
    THEN [j EXCEPT !.sources.source = List(j.sources.source.items)] ELSE j
CleanMain(j) ==
    [j EXCEPT !.mainHeadings.data = List(MapSeq(CleanHeading, j.mainHeadings.data.items))]
CleanMainEl(j) ==
    IF JsonTruthy(j.mainHeadings.mainHeadingEl)
    THEN [j EXCEPT !.mainHeadings.mainHeadingEl =
                       List(MapSeq(CleanStructured, j.mainHeadings.mainHeadingEl.items))]
    ELSE j
CleanX400(j) ==
    IF j.x400s.present
    THEN [j EXCEPT !.x400s.x400 = List(MapSeq(CleanStructured, j.x400s.x400.items))]
    ELSE j
CleanEntries(j) ==
    [j EXCEPT !.languageOfEntity.data = List(j.languageOfEntity.data.items),
              !.nationalityOfEntity.data = List(j.nationalityOfEntity.data.items),
              !.occupation.data = List(j.occupation.data.items)]

ParseData ==
    /\ pc = "parse"
    /\ IF data.st = "None"
       THEN pc' = "element" /\ UNCHANGED <<raised, data, parsed>>
       ELSE IF data.json.nameType = Missing
       \* self.data["nameType"]
       THEN Raise("KeyError", "parse_data") /\ UNCHANGED <<data, parsed>>
       ELSE
         /\ name_type' = data.json.nameType
         /\ sources' = IF data.json.sources.present
                       THEN sources \o MapSeq(ParseSource, data.json.sources.source.items)
                       ELSE sources
         /\ IF ~data.json.mainHeadings.present
            \* self.data.get("mainHeadings")["mainHeadingEl"] subscripts None
            THEN /\ Raise("TypeError", "parse_data")
                 /\ data' = [data EXCEPT !.json = CleanSources(data.json)]
                 /\ UNCHANGED <<headings, headings_structured, name_variants,
                                birth_date, death_date, date_type, gender,
                                languages, nationalities, occupations>>
            ELSE
              /\ pc' = "element" /\ raised' = raised
              /\ data' = [data EXCEPT !.json =
                             CleanEntries(CleanX400(CleanMainEl(CleanMain(
                                 CleanSources(data.json)))))]
              /\ headings' =
                     headings \o MapSeq(ParseHeading, data.json.mainHeadings.data.items)
              /\ headings_structured' =
                     IF JsonTruthy(data.json.mainHeadings.mainHeadingEl)
                     THEN headings_structured
                          \o MapSeq(ParseStructured, data.json.mainHeadings.mainHeadingEl.items)
                     ELSE headings_structured
              /\ name_variants' =
                     IF data.json.x400s.present
                     THEN name_variants \o MapSeq(ParseStructured, data.json.x400s.x400.items)
                     ELSE name_variants
              /\ birth_date' = format_date(data.json.birthDate)
              /\ death_date' = format_date(data.json.deathDate)
              /\ date_type' = data.json.dateType
              /\ gender' = Gender(data.json.fixed.gender)
              /\ languages' =
                     IF data.json.languageOfEntity.present
                     THEN languages \o MapSeq(ParseEntry, data.json.languageOfEntity.data.items)
                     ELSE languages
              /\ nationalities' =
                     IF data.json.nationalityOfEntity.present
                     THEN nationalities
                          \o MapSeq(ParseEntry, data.json.nationalityOfEntity.data.items)
                     ELSE nationalities
              /\ occupations' =
                     IF data.json.occupation.present
                     THEN occupations \o MapSeq(ParseEntry, data.json.occupation.data.items)
                     ELSE occupations
    /\ UNCHANGED <<argv, viaf_ids, results, stderr, network, viaf_id, tools>>

(***************************************************************************)
(* viaf.py 287-557, create_viaf.py 66-76: create_element, and what the     *)
(* loop does with the element it returns.                                  *)
(***************************************************************************)
\* the element create_element returns for a parsed record with a known
\* name type and at least one heading
BuildElement ==
    LET element_name == ElementName(name_type)
        display_heading == headings[DisplayHeading(headings)]
        structured_names == StructuredNames(headings_structured, name_variants)
    IN  El(element_name,
           [NoAttrib EXCEPT !.id = ElementId(name_type, viaf_id)],
           None,
           <<DisplayElement(element_name, display_heading)>>
           \o VariantElements(element_name, structured_names)
           \o DateElements(date_type, birth_date, death_date)
           \o PersonElements(element_name, gender, languages, nationalities, occupations)
           \o <<LinksNote(sources, viaf_id)>>)

\* people.append / organizations.append (create_viaf.py 69-76)
Collect(e) ==
    /\ people' = IF e.tag = "person" THEN Append(people, e) ELSE people
    /\ organizations' = IF e.tag = "org" THEN Append(organizations, e) ELSE organizations

CreateElement ==
    /\ pc = "element"
    /\ IF data.st = "unset"
       \* __post_init__ returned before self.data was assigned
       THEN /\ Raise("AttributeError", "create_element")
            /\ UNCHANGED <<people, organizations, element, headings_structured,
                           name_variants>>
       ELSE IF data.st = "None"
       THEN /\ element' = NoElement
            /\ pc' = "loop" /\ raised' = raised
            /\ UNCHANGED <<people, organizations, headings_structured, name_variants>>
       ELSE IF ElementName(name_type) = ""
       \* element_name is unbound at etree.Element(element_name, ...)
       THEN /\ Raise("UnboundLocalError", "create_element")
            /\ UNCHANGED <<people, organizations, element, headings_structured,
                           name_variants>>
       ELSE IF headings = <<>>
       \* max() of an empty list
       THEN /\ Raise("ValueError", "create_element")
            /\ UNCHANGED <<people, organizations, element, headings_structured,
                           name_variants>>
       ELSE /\ element' = BuildElement
            /\ headings_structured' = MapSeq(WithNormalized, headings_structured)
            /\ name_variants' = MapSeq(WithNormalized, name_variants)
            /\ Collect(BuildElement)
            /\ pc' = "loop" /\ raised' = raised
    /\ UNCHANGED <<tools, argv, viaf_ids, exit_code, output, stdout, stderr, network, viaf_id, data,
                   name_type, sources, headings, birth_date, death_date, date_type,
                   gender, languages, nationalities, occupations>>

(***************************************************************************)
(* create_viaf.py 78-109: after the loop.                                  *)
(***************************************************************************)
Comment(text) == El("comment", NoAttrib, text, <<>>)

Summary(list, one, many) ==
    IF Len(list) = 1 THEN <<one>> ELSE IF Len(list) > 1 THEN <<many>> ELSE <<>>

Finish ==
    /\ pc = "loop" /\ viaf_ids = {}
    /\ pc' = "done"
    /\ IF Len(people) = 0 /\ Len(organizations) = 0
       THEN /\ stderr' = Append(stderr, "No authority entries were created.")
            /\ exit_code' = 1
            /\ UNCHANGED <<output, stdout>>
       ELSE /\ output' = (IF Len(people) > 0
                          THEN <<Comment(<<"People">>)>> \o people ELSE <<>>)
                         \o (IF Len(organizations) > 0
                             THEN <<Comment(<<"Organizations">>)>> \o organizations
                             ELSE <<>>)
            /\ stdout' = Summary(people, "Entry created for 1 person.",
                                 "Entries created for people.")
                         \o Summary(organizations, "Entry created for 1 organization.",
                                    "Entries created for organizations.")
            /\ exit_code' = 0
            /\ stderr' = stderr
    /\ UNCHANGED <<argv, raised, viaf_ids, people, organizations, element, network, object,
                   tools>>

Next == ParseArgs \/ Construct \/ FetchData \/ ParseData \/ CreateElement \/ Finish

Spec == Init /\ [][Next]_vars
SpecPair == InitPair /\ [][Next]_vars

(***************************************************************************)
(* One VIAF object built from one fetched record: the run of a batch      *)
(* of one identifier from the point where fetch_data returned the record.  *)
(***************************************************************************)
\* fetch_data has returned the record j
Fetched(j) ==
    /\ data = [st |-> "json", json |-> j]
    /\ responses = <<[status |-> 200, json |-> j]>>

InitRecord ==
    /\ pc = "parse" /\ raised = NoException
    /\ argv = {Id42} /\ viaf_ids = {}
    /\ people = <<>> /\ organizations = <<>> /\ element = NoElement
    /\ exit_code = -1 /\ output = <<>> /\ stdout = <<>> /\ stderr = <<>>
    /\ requests = <<Id42>> /\ all_requests = <<Id42>>
    /\ viaf_id = Id42
    /\ \/ \E j \in BatchRecords : Fetched(j)
       \/ \E n \in 0..MaxHeadings : \E f \in [1..n -> SourceForms] :
             Fetched(HeadingRecord(f))
       \/ \E nt \in {"Personal", "Corporate"}, m \in 0..MaxStructured,
             n \in 0..MaxStructured :
             \E main \in [1..m -> Structs], alt \in [1..n -> Structs] :
                Fetched(StructuredRecord(nt, main, alt))
       \/ \E n \in 1..MaxYearLen, sign \in DateSigns, tail \in DateTails,
             other \in OtherDates, dt \in DateTypes :
             \E year \in [1..n -> YearDigits] :
                \/ Fetched(DateRecord(sign \o year \o tail, other, dt))
                \/ Fetched(DateRecord(other, sign \o year \o tail, dt))
       \/ \E n \in 0..MaxCitations : \E cs \in [1..n -> CitationPool] :
             Fetched(CitationRecord(List(cs)))
       \/ \E c \in CitationPool : Fetched(CitationRecord(Bare(c)))
       \/ \E n \in 0..MaxTextLen : \E t \in [1..n -> TextChars] :
             Fetched(TextRecord(t))
       \/ Fetched(TextRecord(TextSmith))
       \/ \E nt \in {"Personal", "Corporate"}, dt \in DateTypes, g \in {"a", "b", "u"} :
             Fetched(FullRecord(nt, dt, g))
    /\ Defaults(name_type, sources, headings, headings_structured, name_variants,
                birth_date, death_date, date_type, gender, languages,
                nationalities, occupations)
    /\ NoKeys /\ NoDating /\ NoSubjects /\ written = <<>>

NextRecord == ParseData \/ CreateElement \/ Finish

SpecRecord == InitRecord /\ [][NextRecord]_vars

(***************************************************************************)
(* Properties.                                                             *)
(***************************************************************************)
\* the identifier grammar of the specification: a digit 1-9 followed by 1 to
\* 8 more digits, or 17 to 20 digits in total
IdGrammar(s) ==
    /\ s # <<>>
    /\ \A i \in 1..Len(s) : s[i] \in DigitChars
    /\ s[1] # "0"
    /\ Len(s) \in (2..9) \cup (17..20)

LastResponse == responses[Len(responses)]

\* the response marks an abandoned record that redirects, with both keys
IsRedirectResp(r) ==
    /\ r.status = 200 /\ r.json.ns0 = NsAbandoned
    /\ r.json.scavenged = "false" /\ r.json.redirect.st = "target"
\* the response marks a permanently deleted record
IsDeletedResp(r) ==
    r.status = 200 /\ r.json.ns0 = NsAbandoned /\ r.json.scavenged = "true"
IsNotFoundResp(r) == r.status = 404

\* C1: for an identifier that passes the grammar check, and whatever the
\* request comes to (success, 404, another error status, no response at all,
\* an abandoned record with or without its keys), fetch_data does not raise:
\* no exception leaves fetch_data.
C1_FetchNeverRaises ==
    (requests # <<>> /\ IdGrammar(requests[1])) => raised.method # "fetch_data"

\* C2: an identifier that does not match the identifier grammar is rejected
\* before any network call: the first request of a VIAF object is always for
\* an identifier of the grammar.
C2_RejectedBeforeRequest ==
    requests # <<>> => IdGrammar(requests[1])

\* C3: the VIAF object of an identifier that failed the check (no request was
\* made for it) does not end the batch: create_element gives no fragment
\* without raising, and the loop goes on.
C3_InvalidIdSkipped ==
    (viaf_id # None /\ ~IdGrammar(viaf_id) /\ requests = <<>>) =>
        /\ pc # "crashed"
        /\ pc = "loop" => element = NoElement

\* what the caller is to see of the last response: its record, or no record
Outcome(r) ==
    IF r.status = 200 /\ ~IsDeletedResp(r) THEN [st |-> "json", json |-> r.json]
    ELSE NoData

\* C4: every response before the last is a redirect and the next request is
\* for its target; a redirect is followed; and after at least one hop
\* fetch_data returns the outcome of the last request (a record or no
\* record) to its caller.
C4_RedirectChainFollowed ==
    /\ \A k \in 1..(Len(responses) - 1) :
          /\ IsRedirectResp(responses[k])
          /\ requests[k + 1] = responses[k].json.redirect.directto
    /\ (responses # <<>> /\ IsRedirectResp(LastResponse)) => pc = "fetch"
    /\ (Len(responses) >= 2 /\ pc # "fetch") => raised.method # "fetch_data"
    /\ (Len(responses) >= 2 /\ pc = "parse") => data = Outcome(LastResponse)

\* C5: a response that marks the record permanently deleted, with or without
\* a redirect target, is the last response of its VIAF object: fetch_data
\* has returned no record, and create_element then returns no fragment and
\* nothing is collected.
C5_DeletedIsNoRecord ==
    /\ [](\A k \in 1..Len(responses) :
            IsDeletedResp(responses[k]) =>
                /\ k = Len(responses)
                /\ pc # "fetch"
                /\ data = NoData
                /\ raised = NoException)
    /\ [][(pc = "element" /\ responses # <<>> /\ IsDeletedResp(LastResponse)) =>
            /\ pc' = "loop"
            /\ element' = NoElement
            /\ people' = people /\ organizations' = organizations]_vars

C5_Witness ==
    /\ pc = "loop" /\ responses # <<>>
    /\ IsDeletedResp(LastResponse)
    /\ LastResponse.json.redirect.st = "target"
    /\ element = NoElement

\* C6: after a 404 response fetch_data has returned None; parse_data then
\* changes nothing, create_element returns no fragment, and the loop
\* collects nothing for the identifier, so that nothing is written for it.
C6_NotFoundIsSkipped ==
    /\ []((responses # <<>> /\ IsNotFoundResp(LastResponse)) =>
            /\ pc # "fetch"
            /\ data = NoData
            /\ raised = NoException
            /\ pc \in {"loop", "done"} => element = NoElement)
    /\ [][(responses # <<>> /\ IsNotFoundResp(LastResponse)) =>
            /\ pc = "parse" => (pc' = "element" /\ UNCHANGED <<data, parsed>>)
            /\ pc = "element" =>
                  /\ pc' = "loop"
                  /\ people' = people /\ organizations' = organizations]_vars

C6_Witness ==
    /\ pc = "done" /\ responses # <<>>
    /\ IsNotFoundResp(LastResponse)
    /\ Len(people) = 1 /\ Len(output) = 2 /\ exit_code = 0

\* the contributing source codes of a heading include `code`
Has(code, h) == \E i \in 1..Len(h.sources.items) : h.sources.items[i] = code
HasSecondary(h) == \E k \in 1..Len(SecondarySources) : Has(SecondarySources[k], h)
\* the number of contributing sources of a heading
SourceCount(h) == Len(h.sources.items)

\* create_element has returned a fragment for the current VIAF object
Built == pc \in {"loop", "done"} /\ element # NoElement /\ data.st = "json"
\* the heading whose text the display element carries
Chosen == headings[CHOOSE i \in 1..Len(headings) :
                       headings[i].text = element.children[1].text]

\* C7: the display heading respects the priority LC > DNB > secondary set:
\* if some heading has LC among its source codes the chosen one has; else if
\* some has DNB the chosen one has; else if some has a code of the secondary
\* set the chosen one has one; whether the codes come as a list or bare.
C7_SourcePriority ==
    Built =>
        IF \E i \in 1..Len(headings) : Has(LC, headings[i]) THEN Has(LC, Chosen)
        ELSE IF \E i \in 1..Len(headings) : Has(DNB, headings[i]) THEN Has(DNB, Chosen)
        ELSE (\E i \in 1..Len(headings) : HasSecondary(headings[i])) => HasSecondary(Chosen)

\* C8: when no heading has an LC, DNB or secondary-set source, the display
\* heading is the first heading with the largest number of contributing
\* sources, a bare source code counting as one.
C8_MostSources ==
    (Built /\ \A i \in 1..Len(headings) :
                 ~Has(LC, headings[i]) /\ ~Has(DNB, headings[i])
                 /\ ~HasSecondary(headings[i])) =>
        Chosen = headings[Min({i \in 1..Len(headings) :
                                  \A j \in 1..Len(headings) :
                                      SourceCount(headings[j]) <= SourceCount(headings[i])})]

\* the record of the service carries no main heading at all
NoHeadings(j) ==
    /\ j.ns0 = NsCluster
    /\ j.nameType \in {"Personal", "Corporate"}
    /\ ~j.mainHeadings.present \/ j.mainHeadings.data.items = <<>>

\* C9: a fetched record with no headings stops that identifier only: no
\* fragment is produced for it, and main is not ended by the failure, so
\* that the other identifiers of the batch are processed.
C9_NoHeadingsRecovered ==
    (data.st = "json" /\ NoHeadings(data.json)) =>
        /\ pc # "crashed"
        /\ pc \in {"loop", "done"} => element = NoElement

IsName(e) == e.tag \in {"persName", "orgName"}

\* C10: a fragment has exactly one persName/orgName child of type display,
\* its first child, which carries the text of a heading; every other
\* persName/orgName child is of type variant and is built of subfields, not
\* of the text of an unstructured heading.
C10_OneDisplay ==
    (pc \in {"loop", "done"} /\ element # NoElement) =>
        /\ IsName(element.children[1])
        /\ element.children[1].attrib.type = <<"display">>
        /\ \A i \in 2..Len(element.children) :
              IsName(element.children[i]) =>
                  /\ element.children[i].attrib.type = <<"variant">>
                  /\ element.children[i].text = None
        /\ data.st = "json" =>
              \E i \in 1..Len(headings) : headings[i].text = element.children[1].text

C10_Witness ==
    /\ Built /\ Len(headings) >= 2
    /\ Cardinality({i \in 2..Len(element.children) : IsName(element.children[i])}) >= 2

(***************************************************************************)
(* The variant list.                                                       *)
(***************************************************************************)
\* an entry carries at least one contributing source code of the trust set
Trusted(h) == \E k \in 1..Len(PreferredSources) : Has(PreferredSources[k], h)

IsAlphaChar(c) == IsAlpha(c)
\* the subfield texts of the alphabetic-coded subfields, concatenated
RECURSIVE AlphaCodedText(_)
AlphaCodedText(sfs) ==
    IF sfs = <<>> THEN <<>>
    ELSE (IF IsAlphaStr(sfs[1].code) THEN sfs[1].text ELSE <<>>)
         \o AlphaCodedText(Tail(sfs))
\* the normalized key: that text with every non-alphabetic character removed
Key(h) == SelectSeq(AlphaCodedText(h.subfields), IsAlphaChar)

\* the entries of xs whose key no earlier entry of xs has
FirstOccurrences(xs) ==
    LET keep == {i \in 1..Len(xs) : \A j \in 1..(i - 1) : Key(xs[j]) # Key(xs[i])}
        F[k \in 0..Len(xs)] ==
            IF k = 0 THEN <<>>
            ELSE IF k \in keep THEN Append(F[k - 1], xs[k]) ELSE F[k - 1]
    IN  F[Len(xs)]

\* the trusted structured main headings, then the trusted alternates
TrustedWalk == SelectSeq(headings_structured, Trusted) \o SelectSeq(name_variants, Trusted)

IsVariant(e) == IsName(e) /\ e.attrib.type = <<"variant">>
\* the variant elements of the fragment, in document order
Variants == SelectSeq(element.children, IsVariant)

\* C11: the variant elements of a fragment are those of the trusted
\* structured main headings followed by the trusted structured alternates,
\* in order, each kept only if no earlier entry of that walk has its
\* normalized key.
C11_VariantList ==
    Built =>
        Variants = [i \in 1..Len(FirstOccurrences(TrustedWalk)) |->
                       VariantElement(ElementName(name_type),
                                      FirstOccurrences(TrustedWalk)[i])]

\* the variant element built from the entry h is in the fragment
Emitted(h) ==
    \E i \in 1..Len(Variants) :
        Variants[i] = VariantElement(ElementName(name_type), h)

\* C12: an entry none of whose source codes is in the trust set is never a
\* variant element and never suppresses another entry: every variant element
\* is built from a trusted entry, and every trusted entry whose key no
\* earlier trusted entry has is a variant element.
C12_UntrustedExcluded ==
    Built =>
        /\ \A i \in 1..Len(Variants) :
              \E k \in 1..Len(TrustedWalk) :
                  Variants[i] = VariantElement(ElementName(name_type), TrustedWalk[k])
        /\ \A k \in 1..Len(TrustedWalk) :
              (\A j \in 1..(k - 1) : Key(TrustedWalk[j]) # Key(TrustedWalk[k]))
                  => Emitted(TrustedWalk[k])

\* C13: the key of an entry is the same when computed again, and is left
\* unchanged by the removal of non-alphabetic characters; the list the
\* deduplication produced, given again as the main list with no alternates,
\* comes back the same, in the same order.
C13_DedupIdempotent ==
    Built =>
        LET names == StructuredNames(headings_structured, name_variants)
        IN  /\ StructuredNames(names, <<>>) = names
            /\ \A i \in 1..Len(names) :
                  /\ Normalized(names[i]) = names[i].normalized
                  /\ SelectSeq(names[i].normalized, IsAlphaChar) = names[i].normalized

C13_Witness ==
    /\ Built
    /\ Len(StructuredNames(headings_structured, name_variants)) >= 2
    /\ Len(StructuredNames(headings_structured, name_variants))
          < Len(SelectSeq(headings_structured, IsPreferred))
            + Len(SelectSeq(name_variants, IsPreferred))

(***************************************************************************)
(* Dates.                                                                  *)
(***************************************************************************)
\* parse_data has returned for a fetched record
Parsed == pc \in {"element", "loop", "done"} /\ data.st = "json"

NonNegative(d) == d # <<>> /\ IsDigitChar(d[1])
Negative(d) == Len(d) >= 2 /\ d[1] = "-" /\ IsDigitChar(d[2])

\* the number of digits d starts with
YearLen(d) == Cardinality({n \in 1..Len(d) : \A i \in 1..n : IsDigitChar(d[i])})
\* s with zeros in front up to the width w
PadLeft(s, w) ==
    IF Len(s) >= w THEN s
    ELSE [i \in 1..w |-> IF i <= w - Len(s) THEN "0" ELSE s[i - (w - Len(s))]]
\* the year of d padded to w digits, and the rest of d as it is
PadDigits(d, w) ==
    PadLeft(SubSeq(d, 1, YearLen(d)), w) \o SubSeq(d, YearLen(d) + 1, Len(d))

NonNegativeDate(d) ==
    IF d = <<"0">> \/ d = <<"0", "0", "0", "0">> THEN None ELSE PadDigits(d, 4)
NegativeDate(d, w) == <<"-">> \o PadDigits(Tail(d), w)

\* C14: of a non-negative date, "0" and "0000" give no date; otherwise the
\* leading digits are padded with zeros to 4 digits, 4 or more digits are
\* unchanged, and what follows the first hyphen is preserved.
C14_NonNegativeDate ==
    Parsed =>
        /\ NonNegative(data.json.birthDate) =>
              birth_date = NonNegativeDate(data.json.birthDate)
        /\ NonNegative(data.json.deathDate) =>
              death_date = NonNegativeDate(data.json.deathDate)

C14_Witness ==
    /\ Parsed
    /\ data.json.birthDate = <<"5", "-", "0", "3", "-", "1", "5">>
    /\ birth_date = <<"0", "0", "0", "5", "-", "0", "3", "-", "1", "5">>

\* C15: of a negative date, the digits after the minus sign are padded with
\* zeros to 5 digits, the sign and what follows the digits being kept: "-5"
\* gives "-00005".
C15_NegativeFiveDigits ==
    Parsed =>
        /\ Negative(data.json.birthDate) =>
              birth_date = NegativeDate(data.json.birthDate, 5)
        /\ Negative(data.json.deathDate) =>
              death_date = NegativeDate(data.json.deathDate, 5)

\* C15, amended: of a negative date, the digits after the minus sign are
\* padded with zeros to 4 digits (5 characters with the sign), the sign and
\* what follows the digits being kept: "-5" gives "-0005".
C15_NegativeFourDigits ==
    Parsed =>
        /\ Negative(data.json.birthDate) =>
              birth_date = NegativeDate(data.json.birthDate, 4)
        /\ Negative(data.json.deathDate) =>
              death_date = NegativeDate(data.json.deathDate, 4)

C15_Witness ==
    /\ Parsed
    /\ data.json.birthDate = <<"-", "5">>
    /\ birth_date = <<"-", "0", "0", "0", "5">>

\* the children of the fragment with the tag t
Tagged(t) == {i \in 1..Len(element.children) : element.children[i].tag = t}
DateChild(t) == element.children[CHOOSE i \in Tagged(t) : TRUE]
OneIff(t, date) == Cardinality(Tagged(t)) = IF Truthy(date) THEN 1 ELSE 0

\* C17: "lived" gives a birth element iff there is a birth date and a death
\* element iff there is a death date, the date in "when" and no cert;
\* "circa" gives the same with cert "low"; "flourished" gives exactly one
\* floruit element and no birth or death, notBefore set iff there is a birth
\* date and notAfter iff there is a death date; any other date type gives no
\* date element.
C17_DateElements ==
    Built =>
        IF date_type \in {"lived", "circa"}
        THEN /\ Tagged("floruit") = {}
             /\ OneIff("birth", birth_date) /\ OneIff("death", death_date)
             /\ Truthy(birth_date) =>
                   /\ DateChild("birth").attrib.when = birth_date
                   /\ DateChild("birth").attrib.cert =
                          IF date_type = "circa" THEN <<"low">> ELSE None
             /\ Truthy(death_date) =>
                   /\ DateChild("death").attrib.when = death_date
                   /\ DateChild("death").attrib.cert =
                          IF date_type = "circa" THEN <<"low">> ELSE None
        ELSE IF date_type = "flourished"
        THEN /\ Tagged("birth") = {} /\ Tagged("death") = {}
             /\ Cardinality(Tagged("floruit")) = 1
             /\ DateChild("floruit").attrib.when = None
             /\ DateChild("floruit").attrib.notBefore =
                    IF Truthy(birth_date) THEN birth_date ELSE None
             /\ DateChild("floruit").attrib.notAfter =
                    IF Truthy(death_date) THEN death_date ELSE None
        ELSE Tagged("birth") = {} /\ Tagged("death") = {} /\ Tagged("floruit") = {}

\* a floruit without either bound
C17_Witness ==
    /\ Built /\ date_type = "flourished"
    /\ ~Truthy(birth_date) /\ ~Truthy(death_date)
    /\ Cardinality(Tagged("floruit")) = 1

(***************************************************************************)
(* Heading text.                                                           *)
(***************************************************************************)
\* the main headings as the service sent them
RawHeadings == responses[Len(responses)].json.mainHeadings.data.items

\* t with each run of whitespace made one space
OneSpace(t) ==
    LET first == {i \in 1..Len(t) : ~(IsSpace(t[i]) /\ i > 1 /\ IsSpace(t[i - 1]))}
        F[k \in 0..Len(t)] ==
            IF k = 0 THEN <<>>
            ELSE IF k \in first
                 THEN Append(F[k - 1], IF IsSpace(t[k]) THEN " " ELSE t[k])
                 ELSE F[k - 1]
    IN  F[Len(t)]
\* t with each hyphen next to a digit made an en dash
DateDashes(t) ==
    [i \in 1..Len(t) |->
        IF /\ t[i] = "-"
           /\ \/ i > 1 /\ IsDigitChar(t[i - 1])
              \/ i < Len(t) /\ IsDigitChar(t[i + 1])
        THEN EnDash ELSE t[i]]
\* t without its last character when that is a full stop
OneStopLess(t) ==
    IF t # <<>> /\ t[Len(t)] = "." THEN SubSeq(t, 1, Len(t) - 1) ELSE t

\* C16: the text of a heading is the text of the service with, in order,
\* every run of whitespace collapsed to one space, each hyphen right after or
\* right before a digit replaced by an en dash and no other hyphen changed,
\* and exactly one trailing full stop removed if there is one.
C16_HeadingText ==
    (Parsed /\ Len(responses) >= 1) =>
        /\ Len(headings) = Len(RawHeadings)
        /\ \A i \in 1..Len(headings) :
              headings[i].text = OneStopLess(DateDashes(OneSpace(RawHeadings[i].text)))

C16_Witness ==
    /\ Parsed /\ Len(headings) = 1
    /\ RawHeadings[1].text = TextSmith
    /\ headings[1].text =
          <<"S", "m", "i", "t", "h", ",", " ", "J", "o", "h", "n", ",", " ",
            "1", "9", "0", "0", EnDash, "1", "9", "5", "0">>

(***************************************************************************)
(* Links.                                                                  *)
(***************************************************************************)
\* the items of the links list: note / list / item
Links == element.children[Len(element.children)].children[1].children
LinkTitle(item) == item.children[1].children[1].text

\* citation names and the titles of their links
LinkTitles ==
    <<<<<<"B", "N", "F">>, <<"B", "N", "F">>>>,
      <<<<"D", "N", "B">>, <<"G", "N", "D">>>>,
      <<<<"I", "S", "N", "I">>, <<"I", "S", "N", "I">>>>,
      <<<<"L", "C">>, <<"L", "C">>>>,
      <<<<"W", "K", "P">>, <<"W", "i", "k", "i", "d", "a", "t", "a">>>>>>
TitleVIAF == <<"V", "I", "A", "F">>

\* the citations as the service sent them, and the name of one
RawCitations == responses[Len(responses)].json.sources.source.items
CitationName(c) ==
    SubSeq(c.text, 1, Min({i \in 1..Len(c.text) : c.text[i] = "|"}) - 1)

\* s is before t, or equal to it, in the order of the code points
RECURSIVE OrdinalLeq(_, _)
OrdinalLeq(s, t) ==
    IF s = <<>> THEN TRUE
    ELSE IF t = <<>> THEN FALSE
    ELSE IF s[1] = t[1] THEN OrdinalLeq(Tail(s), Tail(t))
    ELSE CodePoint(s[1]) < CodePoint(t[1])

\* C18: the links list has one link for each source citation named BNF,
\* DNB, ISNI, LC or WKP, titled BNF, GND, ISNI, LC or Wikidata, no link for
\* another citation, and exactly one more link, titled VIAF; the list is in
\* ascending order of the titles, compared by code points.
C18_Links ==
    (Built /\ Len(responses) >= 1 /\ LastResponse.json.sources.present) =>
        /\ \A k \in 1..Len(LinkTitles) :
              Cardinality({i \in 1..Len(Links) : LinkTitle(Links[i]) = LinkTitles[k][2]})
                  = Cardinality({i \in 1..Len(RawCitations) :
                                    CitationName(RawCitations[i]) = LinkTitles[k][1]})
        /\ Cardinality({i \in 1..Len(Links) : LinkTitle(Links[i]) = TitleVIAF}) = 1
        /\ \A i \in 1..Len(Links) :
              \/ LinkTitle(Links[i]) = TitleVIAF
              \/ \E k \in 1..Len(LinkTitles) : LinkTitle(Links[i]) = LinkTitles[k][2]
        /\ \A i \in 1..(Len(Links) - 1) :
              OrdinalLeq(LinkTitle(Links[i]), LinkTitle(Links[i + 1]))

\* citations WKP, DNB, LC in that order: links GND, LC, VIAF, Wikidata
C18_Witness ==
    /\ Built /\ Len(responses) >= 1
    /\ [i \in 1..Len(RawCitations) |-> CitationName(RawCitations[i])]
          = <<<<"W", "K", "P">>, <<"D", "N", "B">>, <<"L", "C">>>>
    /\ [i \in 1..Len(Links) |-> LinkTitle(Links[i])]
          = <<<<"G", "N", "D">>, <<"L", "C">>, TitleVIAF,
              <<"W", "i", "k", "i", "d", "a", "t", "a">>>>

(***************************************************************************)
(* One item or a list.                                                     *)
(***************************************************************************)
AllLists(xs) == \A i \in 1..Len(xs) : xs[i].sources.isList

\* C19: after parsing, every field the service gives as one item or as a
\* list is a list: the citations, the main headings, the structured main
\* headings and alternates and their subfields, the language, nationality
\* and occupation entries, and the source codes of every entry, so that
\* create_element never reads the single-item form.
C19_NormalizedToLists ==
    Parsed =>
        /\ data.json.sources.present => data.json.sources.source.isList
        /\ data.json.mainHeadings.data.isList
        /\ data.json.mainHeadings.mainHeadingEl.isList
        /\ \A i \in 1..Len(data.json.mainHeadings.mainHeadingEl.items) :
              data.json.mainHeadings.mainHeadingEl.items[i].datafield.subfield.isList
        /\ data.json.x400s.present =>
              /\ data.json.x400s.x400.isList
              /\ \A i \in 1..Len(data.json.x400s.x400.items) :
                    data.json.x400s.x400.items[i].datafield.subfield.isList
        /\ data.json.languageOfEntity.data.isList
        /\ data.json.nationalityOfEntity.data.isList
        /\ data.json.occupation.data.isList
        /\ AllLists(headings) /\ AllLists(headings_structured)
        /\ AllLists(name_variants) /\ AllLists(languages)
        /\ AllLists(nationalities) /\ AllLists(occupations)

(***************************************************************************)
(* The exit status of create_viaf.                                         *)
(***************************************************************************)
\* the argument is a number, a prefixed number, or a URL with a number
IdentifierArg(a) == ~NoIdentifier(a) /\ (StartsWithHttp(a) => ViafAt(a) # {})

Fragments == Len(people) + Len(organizations)

\* C20: given identifier arguments, main runs to completion (no exception
\* ends it), returns 0 if at least one fragment was produced and 1 if none
\* was, and writes nothing to the output if none was.
C20_ExitStatus ==
    (\A a \in argv : IdentifierArg(a)) =>
        /\ pc # "crashed"
        /\ pc = "done" =>
              /\ exit_code = IF Fragments >= 1 THEN 0 ELSE 1
              /\ Fragments = 0 => output = <<>>

(***************************************************************************)
(* The order of the children of a fragment.                                *)
(***************************************************************************)
\* the place of a child in the fixed order
Rank(e) ==
    IF IsName(e) /\ e.attrib.type = <<"display">> THEN 1
    ELSE IF IsName(e) THEN 2
    ELSE IF e.tag \in {"birth", "death", "floruit"} THEN 3
    ELSE IF e.tag = "sex" THEN 4
    ELSE IF e.tag = "langKnown" THEN 5
    ELSE IF e.tag = "nationality" THEN 6
    ELSE IF e.tag = "occupation" THEN 7
    ELSE IF e.tag = "note" THEN 8
    ELSE 0

\* C23: the children of a fragment are, in this order, the display name,
\* the variant names, the date elements, for a person the sex, langKnown,
\* nationality and occupation elements, and exactly one links note, the
\* last child; an org has no sex, langKnown, nationality or occupation
\* child, whatever the record carries.
C23_ChildOrder ==
    (pc \in {"loop", "done"} /\ element # NoElement) =>
        /\ \A i \in 1..Len(element.children) : Rank(element.children[i]) # 0
        /\ \A i \in 1..(Len(element.children) - 1) :
              Rank(element.children[i]) <= Rank(element.children[i + 1])
        /\ Rank(element.children[1]) = 1
        /\ Rank(element.children[Len(element.children)]) = 8
        /\ element.children[Len(element.children)].attrib.type = <<"links">>
        /\ Cardinality({i \in 1..Len(element.children) :
                           Rank(element.children[i]) = 8}) = 1
        /\ element.tag = "org" =>
              \A i \in 1..Len(element.children) :
                  Rank(element.children[i]) \notin 4..7

\* an org built from a record with gender, languages, nationality, occupation
C23_Witness ==
    /\ Built /\ element.tag = "org"
    /\ Truthy(gender) /\ languages # <<>> /\ nationalities # <<>> /\ occupations # <<>>
    /\ \E i \in 1..Len(element.children) : Rank(element.children[i]) = 2
    /\ \E i \in 1..Len(element.children) : Rank(element.children[i]) = 3

\* C26: for a fetched record with at least one heading create_element does
\* not raise, whatever the kind of entity: the root is person with the
\* identity person_{id} iff the kind is Personal, org with org_{id} iff it
\* is Corporate, and for another kind no fragment is produced.
C26_AnyKindCompletes ==
    (data.st = "json" /\ Len(headings) >= 1) =>
        /\ raised.method # "create_element"
        /\ pc \in {"loop", "done"} =>
              IF name_type = "Personal"
              THEN element.tag = "person" /\ element.attrib.id = <<"person_">> \o viaf_id
              ELSE IF name_type = "Corporate"
              THEN element.tag = "org" /\ element.attrib.id = <<"org_">> \o viaf_id
              ELSE element = NoElement

\* C28: a date that format_date returned is returned unchanged when given
\* to format_date again; in particular it is not a string for which
\* format_date gives no date.
C28_FormatDateStable ==
    Parsed =>
        /\ birth_date # None => format_date(birth_date) = birth_date
        /\ death_date # None => format_date(death_date) = death_date

(***************************************************************************)
(* One batch.                                                              *)
(***************************************************************************)
NoRepeat(xs) == \A i, j \in 1..Len(xs) : i # j => xs[i] # xs[j]
\* the identities of the fragments collected so far
Identities ==
    [i \in 1..Len(people \o organizations) |-> (people \o organizations)[i].attrib.id]

\* C27: in one batch no identifier is requested twice, in whatever forms
\* and however often it is given, and the fragments collected have pairwise
\* distinct identities, also when a given identifier redirects to another
\* identifier of the batch.
C27_FetchedOnce ==
    /\ NoRepeat(all_requests)
    /\ NoRepeat(Identities)

(***************************************************************************)
(* The key checkers: MSDesc.check_keys (src/tei/xml.py 181-256), driven    *)
(* by check_entity_keys.main and by manage_entities.main.  A manuscript    *)
(* description is the list of the values of its @key attributes in         *)
(* document order.                                                         *)
(***************************************************************************)
KeyEmpty == <<>>
KeyNoUnderscore == <<"p", "1">>
KeyPerson1 == <<"p", "_", "1">>
KeyPerson2 == <<"p", "_", "2">>
KeyTrailing == <<"p", "_", "2", "x">>
KeyPool == {KeyEmpty, KeyNoUnderscore, KeyPerson1, KeyPerson2, KeyTrailing}
\* the xml:ids the authority files can hold
Authorities == {{}, {KeyPerson1}, {KeyPerson1, KeyTrailing}}

\* \w on one character
IsWord(c) == IsAlpha(c) \/ IsDigitChar(c) \/ c = "_"

\* re.match(r"\w+_\d+", key): the pattern matches some prefix of key
KeyMatch(key) ==
    \E i \in 1..Len(key), j \in 1..Len(key) :
        /\ i + 2 <= j
        /\ \A k \in 1..i : IsWord(key[k])
        /\ key[i + 1] = "_"
        /\ \A k \in (i + 2)..j : IsDigitChar(key[k])

KeyMessage(kind, key) == [error |-> kind, key |-> key]

\* the loop of check_keys over the keys of one document, from the values
\* (keys_valid, missing_keys, lines written to stderr) so far
RECURSIVE check_keys(_, _, _, _, _)
check_keys(doc, authority, keys_valid, missing, errors) ==
    IF doc = <<>>
    THEN [valid |-> keys_valid, missing |-> missing, errors |-> errors]
    ELSE LET key == Head(doc) IN
         IF key = <<>>
         THEN check_keys(Tail(doc), authority, FALSE, missing,
                         Append(errors, KeyMessage("empty key", key)))
         ELSE IF ~KeyMatch(key)
         THEN check_keys(Tail(doc), authority, FALSE, missing,
                         Append(errors, KeyMessage("is invalid", key)))
         ELSE IF key \notin authority
         THEN check_keys(Tail(doc), authority, FALSE, Append(missing, key),
                         Append(errors, KeyMessage("not found in authority files", key)))
         ELSE check_keys(Tail(doc), authority, keys_valid, missing, errors)

\* the returned tuple (keys_valid, missing_keys)
Returned(r) == [valid |-> r.valid, missing |-> r.missing]

\* the manuscript descriptions of a directory: the keys ks, cut into files
\* after the positions cut[1] <= ... <= cut[n]
Cuts(cut, k) ==
    /\ \A i \in 1..(Len(cut) - 1) : cut[i] <= cut[i + 1]
    /\ IF Len(cut) = 0 THEN k = 0 ELSE cut[Len(cut)] = k
Collection(ks, cut) ==
    [i \in 1..Len(cut) |->
        SubSeq(ks, (IF i = 1 THEN 0 ELSE cut[i - 1]) + 1, cut[i])]

\* a key checker starts at `start` on some directory and authority files
StartKeys(start) ==
    /\ pc = start /\ raised = NoException
    /\ argv = {} /\ viaf_ids = {}
    /\ people = <<>> /\ organizations = <<>> /\ element = NoElement
    /\ exit_code = -1 /\ output = <<>> /\ stdout = <<>> /\ stderr = <<>>
    /\ requests = <<>> /\ responses = <<>> /\ all_requests = <<>>
    /\ viaf_id = None /\ data = [st |-> "unset", json |-> NoJson]
    /\ Defaults(name_type, sources, headings, headings_structured, name_variants,
                birth_date, death_date, date_type, gender, languages,
                nationalities, occupations)
    /\ authority_keys \in Authorities
    /\ \E k \in 0..MaxKeys, n \in 0..MaxPaths :
          \E ks \in [1..k -> KeyPool], cut \in [1..n -> 0..k] :
             Cuts(cut, k) /\ paths = Collection(ks, cut)
    /\ tree = <<>> /\ key_results = <<>>
    /\ missing_keys = {} /\ new_authority_keys = {}
    /\ NoDating /\ NoSubjects /\ written = <<>>

\* check_entity_keys.py 54-57: MSDesc(path).check_keys(authority_keys) for
\* the next path
CheckKeys ==
    /\ pc = "check" /\ paths # <<>>
    /\ LET r == check_keys(Head(paths), authority_keys, TRUE, <<>>, <<>>) IN
          /\ tree' = Head(paths)
          /\ paths' = Tail(paths)
          /\ key_results' = Append(key_results, Returned(r))
          /\ stderr' = stderr \o r.errors
    /\ UNCHANGED <<pc, raised, exit_code, stdout, batch, authority_keys, validate_only,
                   missing_keys, new_authority_keys, dating, subjects, written>>

\* " ".join(key for result in results for key in result[1])
RECURSIVE AllMissing(_)
AllMissing(rs) == IF rs = <<>> THEN <<>> ELSE Head(rs).missing \o AllMissing(Tail(rs))

\* check_entity_keys.py 62-69: the summary and the exit status
KeysSummary ==
    /\ pc = "check" /\ paths = <<>>
    /\ pc' = "done"
    /\ IF \A i \in 1..Len(key_results) : key_results[i].valid
       THEN /\ stdout' = <<"", "All keys are valid.">>
            /\ exit_code' = 0
       ELSE /\ stdout' = <<"", "Missing keys:", Join(<<" ">>, AllMissing(key_results))>>
            /\ exit_code' = 1
    /\ UNCHANGED <<raised, stderr, batch, keys, dating, subjects, written>>

InitKeys == StartKeys("check") /\ validate_only = FALSE
NextKeys == CheckKeys \/ KeysSummary
SpecKeys == InitKeys /\ [][NextKeys]_vars

(***************************************************************************)
(* manage_entities.main (src/manage_entities.py 180-269).                  *)
(***************************************************************************)
\* key.split("_")[-1]: what follows the last underscore
RECURSIVE LastSegment(_)
LastSegment(key) ==
    IF \E i \in 1..Len(key) : key[i] = "_"
    THEN LastSegment(SubSeq(key, (CHOOSE i \in 1..Len(key) : key[i] = "_") + 1, Len(key)))
    ELSE key

\* int(s) succeeds on a string of digits
IsInt(s) == s # <<>> /\ \A i \in 1..Len(s) : IsDigitChar(s[i])

\* manage_entities.py 192-196: the set comprehension iterates over the tuple
\* (keys_valid, missing_keys) that check_keys returns for the first path; the
\* bool goes into the set, the list is unhashable and set.add raises
MissingKeys ==
    /\ pc = "missing"
    /\ IF paths = <<>>
       THEN /\ pc' = "viaf" /\ missing_keys' = {}
            /\ UNCHANGED <<raised, tree, stderr>>
       ELSE /\ tree' = Head(paths)
            /\ stderr' = stderr \o check_keys(Head(paths), authority_keys,
                                               TRUE, <<>>, <<>>).errors
            /\ Raise("TypeError", "main")
            /\ UNCHANGED missing_keys
    /\ UNCHANGED <<exit_code, stdout, batch, authority_keys, paths, key_results,
                   validate_only, new_authority_keys, dating, subjects, written>>

\* manage_entities.py 198-238: the likely VIAF identifiers of the missing
\* keys, and for each the element VIAF(viaf_id).create_element() returns:
\* none, a person or an org, whose xml:id joins new_authority_keys
AddRecords ==
    /\ pc = "viaf"
    /\ IF missing_keys # {} /\ ~validate_only
       THEN IF \E key \in missing_keys : ~IsInt(LastSegment(key))
            THEN Raise("ValueError", "main") /\ UNCHANGED new_authority_keys
            ELSE LET ids == {IntStr(LastSegment(key)) : key \in missing_keys} IN
                 /\ \E tag \in [ids -> {"none", "person", "org"}] :
                       new_authority_keys' =
                           {<<tag[id], "_">> \o id : id \in {i \in ids : tag[i] # "none"}}
                 /\ pc' = "summary" /\ raised' = raised
       ELSE pc' = "summary" /\ UNCHANGED <<raised, new_authority_keys>>
    /\ UNCHANGED <<exit_code, stdout, stderr, batch, authority_keys, paths, tree,
                   key_results, validate_only, missing_keys, dating, subjects, written>>

\* manage_entities.py 248-269: the new keys are no longer missing; the
\* summary and the exit status
ManageSummary ==
    /\ pc = "summary"
    /\ pc' = "done"
    /\ missing_keys' = missing_keys \ new_authority_keys
    /\ exit_code' = IF missing_keys' # {} THEN 1 ELSE 0
    /\ stdout' = (IF new_authority_keys # {} THEN <<"Added records:">> ELSE <<>>)
                 \o (IF missing_keys' # {}
                     THEN IF validate_only THEN <<"Invalid keys found:">>
                          ELSE <<"Remaining invalid keys:">>
                     ELSE IF new_authority_keys = {} THEN <<"All keys are valid.">>
                     ELSE <<>>)
    /\ UNCHANGED <<raised, stderr, batch, authority_keys, paths, tree, key_results,
                   validate_only, new_authority_keys, dating, subjects, written>>

InitManage == StartKeys("missing") /\ validate_only \in BOOLEAN
NextManage == MissingKeys \/ AddRecords \/ ManageSummary
SpecManage == InitManage /\ [][NextManage]_vars

(***************************************************************************)
(* The result of the key check.                                            *)
(***************************************************************************)
\* the key has the form prefix_digits
WellFormed(key) ==
    \E i \in 1..Len(key) :
        /\ \A k \in 1..i : IsWord(key[k])
        /\ i + 2 <= Len(key) /\ key[i + 1] = "_"
        /\ \A k \in (i + 2)..Len(key) : IsDigitChar(key[k])

NotFound(key) == WellFormed(key) /\ key \notin authority_keys

\* C21: check_keys returns (valid, missing) where valid is True iff every
\* @key of the document is non-empty, has the form prefix_digits and is in
\* authority_keys, and missing lists in document order exactly the
\* well-formed keys that are not in authority_keys.
C21_CheckKeys ==
    key_results # <<>> =>
        LET r == key_results[Len(key_results)] IN
        /\ r.valid = (\A i \in 1..Len(tree) :
                         /\ tree[i] # <<>> /\ WellFormed(tree[i])
                         /\ tree[i] \in authority_keys)
        /\ r.missing = SelectSeq(tree, NotFound)

\* the key strings of the manuscript descriptions absent from the authority files
AbsentKeys ==
    {key \in UNION {{paths[i][j] : j \in 1..Len(paths[i])} : i \in 1..Len(paths)} :
        NotFound(key)}

\* C22: manage_entities.main returns 0 if all keys of the manuscript
\* descriptions are valid or every missing key was added, and 1 if invalid
\* keys remain; the set of missing keys it computes from check_keys over
\* all files is the set of keys absent from the authority files.
C22_ManageExit ==
    /\ pc # "crashed"
    /\ pc \in {"viaf", "summary"} => missing_keys = AbsentKeys
    /\ pc = "done" => exit_code = IF AbsentKeys \ new_authority_keys = {} THEN 0 ELSE 1

(***************************************************************************)
(* date_bindings: Binding.add_date (src/date_bindings.py 22-67) under the  *)
(* loop of main (85-98).  A <binding> element is the file it stands in and *)
(* its attributes, a set of <<name, value>> pairs.                         *)
(***************************************************************************)
Year1400 == <<"1", "4", "0", "0">>
Year1500 == <<"1", "5", "0", "0">>
\* the lines entered at the prompt
DateInputs ==
    { <<>>, <<"c">>, <<"C">>, <<"x">>, <<"c", "c">>,
      Year1400, <<"1", "2">>, <<"1", "4", "0", "0", "0">>,
      Year1400 \o <<"-">> \o Year1500, Year1400 \o <<EnDash>> \o Year1500,
      Year1500 \o <<"-">> \o Year1400,
      Year1400 \o <<"-">> \o <<"1", "5", "0">>, Year1400 \o <<"-">>,
      Year1400 \o <<" ", "-", " ">> \o Year1500,
      Year1400 \o <<"-">> \o Year1500 \o <<"-">> \o Year1400 }

\* str.lower()
LowerChar(c) ==
    IF \E i \in 1..26 : UpperChars[i] = c
    THEN LowerChars[CHOOSE i \in 1..26 : UpperChars[i] = c]
    ELSE c
Lower(s) == [i \in 1..Len(s) |-> LowerChar(s[i])]

\* str.isdigit()
IsDigit(s) == s # <<>> /\ \A i \in 1..Len(s) : IsDigitChar(s[i])

\* str.replace(old, new) for one-character strings
Replace(s, old, new) == [i \in 1..Len(s) |-> IF s[i] = old THEN new ELSE s[i]]

\* str.split(sep) for a one-character separator
RECURSIVE Split(_, _)
Split(s, sep) ==
    IF \E i \in 1..Len(s) : s[i] = sep
    THEN LET i == CHOOSE i \in 1..Len(s) :
                     s[i] = sep /\ \A j \in 1..(i - 1) : s[j] # sep
         IN <<SubSeq(s, 1, i - 1)>> \o Split(SubSeq(s, i + 1, Len(s)), sep)
    ELSE <<s>>

DatingAttributes == {"when", "notBefore", "notAfter", "contemporary"}
\* not(@when) and not(@notBefore) and not(@notAfter) and not(@contemporary)
Undated(b) == \A a \in b.attrib : a[1] \notin DatingAttributes
\* element.set(name, value)
SetAttribute(attrib, name, value) ==
    {a \in attrib : a[1] # name} \cup {<<name, value>>}

\* the next <binding> of main's loops after the i-th: the first one without
\* a dating attribute, or Len + 1 when there is none
NextUndated(bs, i) ==
    IF \E j \in (i + 1)..Len(bs) : Undated(bs[j])
    THEN CHOOSE j \in (i + 1)..Len(bs) :
            Undated(bs[j]) /\ \A k \in (i + 1)..(j - 1) : ~Undated(bs[k])
    ELSE Len(bs) + 1

\* the <binding> elements of a directory, file after file
BindingPool ==
    [file : 1..MaxPaths, attrib : {{}, {<<"when", Year1500>>}}]

\* main has come to its first prompt, or past its loops
InitDating ==
    /\ raised = NoException
    /\ argv = {} /\ viaf_ids = {}
    /\ people = <<>> /\ organizations = <<>> /\ element = NoElement
    /\ exit_code = -1 /\ output = <<>> /\ stdout = <<>> /\ stderr = <<>>
    /\ requests = <<>> /\ responses = <<>> /\ all_requests = <<>>
    /\ viaf_id = None /\ data = [st |-> "unset", json |-> NoJson]
    /\ Defaults(name_type, sources, headings, headings_structured, name_variants,
                birth_date, death_date, date_type, gender, languages,
                nationalities, occupations)
    /\ NoKeys /\ NoSubjects /\ written = <<>>
    /\ \E n \in 0..MaxBindings : \E bs \in [1..n -> BindingPool] :
          /\ \A i \in 1..(n - 1) : bs[i].file <= bs[i + 1].file
          /\ bindings = bs
    /\ binding = NextUndated(bindings, 0)
    /\ pc = IF binding <= Len(bindings) THEN "prompt" ELSE "end"
    /\ date_string = <<>>

\* main 95-98 after add_date returned: write the file if it returned True,
\* and go to the next <binding> without a dating attribute
Dated(bs, modified) ==
    /\ bindings' = bs
    /\ written' = IF modified THEN Append(written, bindings[binding].file) ELSE written
    /\ binding' = NextUndated(bs, binding)
    /\ pc' = IF binding' <= Len(bs) THEN "prompt" ELSE "end"
    /\ stdout' = <<>>

\* one round of the loop of add_date: a line is read and acted on; stdout
\* holds what was printed since the line was read
AddDate ==
    /\ pc = "prompt"
    /\ \E line \in DateInputs :
          /\ date_string' = line
          /\ LET attrib == bindings[binding].attrib
                 With(a) == [bindings EXCEPT ![binding].attrib = a]
                 dates == Split(Replace(line, EnDash, "-"), "-")
             IN IF Lower(line) = <<"c">>
                THEN Dated(With(SetAttribute(attrib, "contemporary", <<"t", "r", "u", "e">>)),
                           TRUE)
                ELSE IF line = <<>>
                THEN Dated(bindings, FALSE)
                ELSE IF IsDigit(line)
                THEN Dated(With(SetAttribute(attrib, "when", line)), TRUE)
                ELSE IF /\ Len(dates) = 2
                        /\ \A i \in 1..Len(dates) : IsDigit(dates[i]) /\ Len(dates[i]) = 4
                THEN Dated(With(SetAttribute(SetAttribute(attrib, "notBefore", dates[1]),
                                             "notAfter", dates[2])), TRUE)
                ELSE /\ stdout' = <<"Invalid date range format. Please try again.">>
                     /\ UNCHANGED <<pc, bindings, binding, written>>
    /\ UNCHANGED <<raised, exit_code, stderr, batch, keys, subjects>>

\* main 100-101
AllFiles ==
    /\ pc = "end"
    /\ pc' = "done" /\ exit_code' = 0
    /\ stdout' = <<"All files processed.">>
    /\ UNCHANGED <<raised, stderr, batch, keys, dating, subjects, written>>

NextDating == AddDate \/ AllFiles
SpecDating == InitDating /\ [][NextDating]_vars

(***************************************************************************)
(* The forms of a date.                                                    *)
(***************************************************************************)
Digits(s, from, to) == \A i \in from..to : IsDigitChar(s[i])
\* 'c', in either case
FormContemporary(line) == line \in {<<"c">>, <<"C">>}
\* yyyy
FormYear(line) == Len(line) = 4 /\ Digits(line, 1, 4)
\* yyyy-yyyy with a hyphen or an en dash
FormRange(line) ==
    /\ Len(line) = 9 /\ Digits(line, 1, 4) /\ Digits(line, 6, 9)
    /\ line[5] \in {"-", EnDash}

\* add_date returned True for the element that now has the attributes a
ReturnedTrue(a) ==
    /\ bindings' = [bindings EXCEPT ![binding].attrib = a]
    /\ written' = Append(written, bindings[binding].file)
    /\ binding' > binding

\* C24: add_date sets a dating attribute only for 'c' (contemporary =
\* 'true'), a single year yyyy (when) or a range yyyy-yyyy with hyphen or
\* en dash (notBefore, notAfter), and returns True; on empty input it
\* returns False with the element unchanged; on every other input the
\* element is unchanged and the prompt is repeated.
C24_AddDate ==
    [][pc = "prompt" =>
        LET line == date_string' IN
        IF FormContemporary(line)
        THEN ReturnedTrue({<<"contemporary", <<"t", "r", "u", "e">>>>})
        ELSE IF FormYear(line)
        THEN ReturnedTrue({<<"when", line>>})
        ELSE IF FormRange(line)
        THEN ReturnedTrue({<<"notBefore", SubSeq(line, 1, 4)>>,
                           <<"notAfter", SubSeq(line, 6, 9)>>})
        ELSE IF line = <<>>
        THEN bindings' = bindings /\ written' = written /\ binding' > binding
        ELSE /\ bindings' = bindings /\ written' = written
             /\ binding' = binding /\ pc' = "prompt"]_vars

(***************************************************************************)
(* add_work_subjects: CategorySelector.__call__ (src/add_work_subjects.py  *)
(* 31-60) under the loop of main (96-117).  A <bibl> element is its xml:id *)
(* (None without one) and the refs of its <term> children.                 *)
(***************************************************************************)
\* the lines entered at the prompt
SelectionInputs ==
    { <<>>, <<" ">>, <<"1">>, <<"2">>, <<"0">>, <<"9">>, <<"x">>, <<"-", "1">>,
      <<"1", " ", "2">>, <<"2", " ", "1">>, <<"1", " ", "1">>, <<" ", "2", " ">>,
      <<"1", " ", "x">>, <<"9", " ", "x">>, <<"x", " ", "9">>, <<"1", " ", "9">> }

\* str.split(): the maximal runs of characters that are not whitespace
RECURSIVE SplitWhitespace(_)
SplitWhitespace(s) ==
    IF s = <<>> THEN <<>>
    ELSE IF IsSpace(s[1]) THEN SplitWhitespace(Tail(s))
    ELSE LET n == IF \E i \in 1..Len(s) : IsSpace(s[i])
                  THEN (CHOOSE i \in 1..Len(s) :
                           IsSpace(s[i]) /\ \A j \in 1..(i - 1) : ~IsSpace(s[j])) - 1
                  ELSE Len(s)
         IN <<SubSeq(s, 1, n)>> \o SplitWhitespace(SubSeq(s, n + 1, Len(s)))

\* int(index): an optional sign and decimal digits, else ValueError
Unsigned(t) == IF t # <<>> /\ t[1] \in {"-", "+"} THEN Tail(t) ELSE t
IsNumber(t) == IsDigit(Unsigned(t))
RECURSIVE DigitsValue(_)
DigitsValue(d) ==
    IF d = <<>> THEN 0
    ELSE 10 * DigitsValue(DropLast(d)) + (CHOOSE v \in 0..9 : ToString(v) = d[Len(d)])
IntOf(t) == IF t[1] = "-" THEN 0 - DigitsValue(Unsigned(t)) ELSE DigitsValue(Unsigned(t))

\* categories[i] of a Python list: 0 <= i < len, or -len <= i < 0 from the end
InRange(list, i) == 0 - Len(list) <= i /\ i < Len(list)
Subscript(list, i) == IF i >= 0 THEN list[i + 1] ELSE list[Len(list) + i + 1]

\* the list comprehension of __call__ 51-54: the exception of the first index
\* that raises one, or the list of ids
Selected(cats, indexes) ==
    LET Fails(k) == ~IsNumber(indexes[k]) \/ ~InRange(cats, IntOf(indexes[k]) - 1) IN
    IF \E k \in 1..Len(indexes) : Fails(k)
    THEN LET k == CHOOSE k \in 1..Len(indexes) :
                     Fails(k) /\ \A j \in 1..(k - 1) : ~Fails(j)
         IN [raised |-> IF IsNumber(indexes[k]) THEN "IndexError" ELSE "ValueError",
             ids |-> <<>>]
    ELSE [raised |-> "none",
          ids |-> [k \in 1..Len(indexes) |-> Subscript(cats, IntOf(indexes[k]) - 1)]]

\* Category.id of the i-th <category>
CategoryId(i) == <<"c", "a", "t", ToString(i)>>
WorkId == <<"w", "o", "r", "k">>
\* Bibl.add_term: the ref of the new <term>
TermRef(category) == <<"#">> \o category

\* //tei:bibl[@xml:id and not(tei:term)]
Unclassified(b) == b.id # None /\ b.terms = <<>>
BiblPool ==
    { [id |-> WorkId, terms |-> <<>>], [id |-> None, terms |-> <<>>],
      [id |-> WorkId, terms |-> <<TermRef(CategoryId(1))>>] }

\* the next <bibl> of main's loop after the i-th, or Len + 1
NextUnclassified(bs, i) ==
    IF \E j \in (i + 1)..Len(bs) : Unclassified(bs[j])
    THEN CHOOSE j \in (i + 1)..Len(bs) :
            Unclassified(bs[j]) /\ \A k \in (i + 1)..(j - 1) : ~Unclassified(bs[k])
    ELSE Len(bs) + 1

\* main has come to its first prompt, or past its loop
InitSubjects ==
    /\ raised = NoException
    /\ argv = {} /\ viaf_ids = {}
    /\ people = <<>> /\ organizations = <<>> /\ element = NoElement
    /\ exit_code = -1 /\ output = <<>> /\ stdout = <<>> /\ stderr = <<>>
    /\ requests = <<>> /\ responses = <<>> /\ all_requests = <<>>
    /\ viaf_id = None /\ data = [st |-> "unset", json |-> NoJson]
    /\ Defaults(name_type, sources, headings, headings_structured, name_variants,
                birth_date, death_date, date_type, gender, languages,
                nationalities, occupations)
    /\ NoKeys /\ NoDating /\ written = <<>>
    /\ \E n \in 0..MaxCategories : categories = [i \in 1..n |-> CategoryId(i)]
    /\ \E n \in 0..MaxBibls : bibls \in [1..n -> BiblPool]
    /\ bibl = NextUnclassified(bibls, 0)
    /\ pc = IF bibl <= Len(bibls) THEN "select" ELSE "end"
    /\ selection = <<>> /\ selected_categories = <<>>

RECURSIVE AddTerms(_, _)
AddTerms(terms, ids) ==
    IF ids = <<>> THEN terms ELSE AddTerms(Append(terms, TermRef(Head(ids))), Tail(ids))

\* one round of the loop of __call__: a line is read; if the selector
\* returns, main 107-117 skips the <bibl> or adds the terms and writes the
\* file, and goes to the next <bibl>; stdout holds what was printed since
\* the line was read
Select ==
    /\ pc = "select"
    /\ \E line \in SelectionInputs :
          /\ selection' = line
          /\ LET r == Selected(categories, SplitWhitespace(line)) IN
             IF r.raised = "ValueError"
             THEN /\ stdout' = <<"Please enter one of more numbers.">>
                  /\ UNCHANGED <<pc, bibls, bibl, selected_categories, written>>
             ELSE IF r.raised = "IndexError"
             THEN /\ stdout' = <<"Please select from the numbers listed.">>
                  /\ UNCHANGED <<pc, bibls, bibl, selected_categories, written>>
             ELSE /\ selected_categories' = r.ids
                  /\ IF r.ids = <<>>
                     THEN UNCHANGED <<bibls, written>>
                     ELSE /\ bibls' = [bibls EXCEPT ![bibl].terms = AddTerms(@, r.ids)]
                          /\ written' = Append(written, "works")
                  /\ bibl' = NextUnclassified(bibls, bibl)
                  /\ pc' = IF bibl' <= Len(bibls) THEN "select" ELSE "end"
                  /\ stdout' = <<>>
    /\ UNCHANGED <<raised, exit_code, stderr, batch, keys, dating, categories>>

\* main 119-120
AllWorks ==
    /\ pc = "end"
    /\ pc' = "done" /\ exit_code' = 0
    /\ stdout' = <<"All works have been processed.">>
    /\ UNCHANGED <<raised, stderr, batch, keys, dating, subjects, written>>

NextSubjects == Select \/ AllWorks
SpecSubjects == InitSubjects /\ [][NextSubjects]_vars

(***************************************************************************)
(* The selection of categories.                                            *)
(***************************************************************************)
\* the numbers entered are all among the listed numbers 1..N
Listed(indexes) ==
    \A k \in 1..Len(indexes) :
        IsNumber(indexes[k]) /\ IntOf(indexes[k]) \in 1..Len(categories)

\* C25: the selector returns the ids of exactly the categories whose listed
\* numbers 1..N were entered, in entry order; a selection with a non-number
\* or a number outside 1..N (0 and negative numbers too) selects nothing
\* and the prompt is repeated; an empty selection returns the empty list
\* and the <bibl> is skipped, neither modified nor written.
C25_Selection ==
    [][pc = "select" =>
        LET indexes == SplitWhitespace(selection') IN
        IF indexes = <<>>
        THEN /\ selected_categories' = <<>> /\ bibl' > bibl
             /\ bibls' = bibls /\ written' = written
        ELSE IF Listed(indexes)
        THEN /\ selected_categories' =
                    [k \in 1..Len(indexes) |-> categories[IntOf(indexes[k])]]
             /\ bibl' > bibl
        ELSE /\ selected_categories' = selected_categories /\ bibl' = bibl
             /\ pc' = "select" /\ bibls' = bibls /\ written' = written]_vars

====
